---------------------------- MODULE Spec2Model ----------------------------
(***************************************************************************)
(* Shape recognition engine of patterns-in-motion                          *)
(* (src/src/lib/shapeRecognition.ts).                                      *)
(*                                                                         *)
(* Numbers.  The source computes in IEEE doubles; TLA+ has integers only.  *)
(* Every length and coordinate of the model is a fixed-point number in     *)
(* hundredths of a pixel (the point (3,4) px is [x |-> 300, y |-> 400]),   *)
(* every ratio and score is in ten-thousandths, every area in hundredths   *)
(* of a square pixel, every angle in ten-thousandths of a radian and every *)
(* confidence before rounding in hundredths.  Division and square root     *)
(* round down.  Mouse coordinates are whole pixels, so every input point   *)
(* is a multiple of 100.                                                   *)
(***************************************************************************)
EXTENDS Integers, Sequences, FiniteSets, TLC

VARIABLES
    points,     \* the argument of the call: a sequence of Points
    epsilon,    \* the tolerance argument of rdp (hundredths of a pixel)
    op,         \* the function that has been applied ("idle" before the call)
    out,        \* the Point[] a geometric helper returned
    shape,      \* the RecognizedShape | null recognizeFromPoints returned
    stages,     \* the detectors recognizeFromPoints ran, in order
    check,      \* the { match, confidence } a legacy detector returned
    array,      \* what the caller's array object holds now
    shared,     \* TRUE when shape.points is the caller's array object
    again,      \* what the latest later call of recognizeFromPoints returned
    frames,     \* the calls of rdp that are still to run, innermost first
    canvas,     \* the state of the DrawingCanvas component
    calls,      \* what the latest event of the canvas asked of
                \* recognizeFromPoints, and the count for the current stroke
    field,      \* the refs of the PatternCanvas component
    pass        \* the latest call of detectPatterns

\* The variables of the recognition engine and those of the two components
engineVars ==
    <<points, epsilon, op, out, shape, stages, check, array, shared, again,
      frames>>

componentVars == <<canvas, calls, field, pass>>

vars == <<engineVars, componentVars>>

Null == "null"

---------------------------------------------------------------------------
(* Arithmetic of the fixed-point numbers                                   *)

Abs(a) == IF a < 0 THEN -a ELSE a

Min2(a, b) == IF a < b THEN a ELSE b

Max2(a, b) == IF a > b THEN a ELSE b

RECURSIVE SqrtIter(_, _)
SqrtIter(n, x) ==
    LET y == (x + n \div x) \div 2
    IN  IF y >= x THEN x ELSE SqrtIter(n, y)

\* floor(sqrt(n)), by Newton's iteration from a guess above the root
ISqrt(n) ==
    IF n < 2 THEN n
    ELSE SqrtIter(n, IF n <= 10000 THEN 100
                     ELSE IF n <= 1000000 THEN 1000
                     ELSE IF n <= 100000000 THEN 10000
                     ELSE 46341)

\* floor(a * b / c) for a >= 0, 0 <= b <= 10000, c > 0, kept below 2^31:
\* the remainder and the divisor are scaled down together when c is large
MulDiv(a, b, c) ==
    LET q == a \div c
        r == a % c
        k == (c \div 100000) + 1
    IN  q * b + ((r \div k) * b) \div (c \div k)

\* Math.round of a number in hundredths: floor(x + 0.5)
Round(h) == (h + 50) \div 100

RECURSIVE SumSeq(_)
SumSeq(s) == IF s = <<>> THEN 0 ELSE Head(s) + SumSeq(Tail(s))

RECURSIVE MaxSeq(_)
MaxSeq(s) == IF Len(s) = 1 THEN s[1] ELSE Max2(Head(s), MaxSeq(Tail(s)))

RECURSIVE MinSeq(_)
MinSeq(s) == IF Len(s) = 1 THEN s[1] ELSE Min2(Head(s), MinSeq(Tail(s)))

\* Array.prototype.sort of numbers with (a, b) => a - b, as an insertion sort
RECURSIVE InsertNum(_, _)
InsertNum(x, s) ==
    IF s = <<>> THEN <<x>>
    ELSE IF x < Head(s) THEN <<x>> \o s
    ELSE <<Head(s)>> \o InsertNum(x, Tail(s))

RECURSIVE SortNum(_)
SortNum(s) ==
    IF s = <<>> THEN <<>>
    ELSE InsertNum(s[Len(s)], SortNum(SubSeq(s, 1, Len(s) - 1)))

---------------------------------------------------------------------------
(* Geometry primitives                                                     *)

\* A point given in whole pixels
Px(x, y) == [x |-> 100 * x, y |-> 100 * y]

\* Math.hypot(a.x - b.x, a.y - b.y)
dist(a, b) ==
    ISqrt((a.x - b.x) * (a.x - b.x) + (a.y - b.y) * (a.y - b.y))

centroid(pts) ==
    [x |-> SumSeq([i \in 1..Len(pts) |-> pts[i].x]) \div Len(pts),
     y |-> SumSeq([i \in 1..Len(pts) |-> pts[i].y]) \div Len(pts)]

\* The closed length: the last point is joined to the first
perimeter(pts) ==
    SumSeq([i \in 1..Len(pts) |-> dist(pts[i], pts[(i % Len(pts)) + 1])])

\* (p.x - a.x) * dy - (p.y - a.y) * dx of pointToLineDist, and the
\* cross product of the hull and of angleBetween
Cross(o, a, b) ==
    (a.x - o.x) * (b.y - o.y) - (a.y - o.y) * (b.x - o.x)

\* Variant of pointToLineDist: the distance to the segment from a to b,
\* the projection of p clamped to its ends
pointToSegmentDist(p, a, b) ==
    LET len == dist(a, b)
        t   == (p.x - a.x) * (b.x - a.x) + (p.y - a.y) * (b.y - a.y)
        l2  == (b.x - a.x) * (b.x - a.x) + (b.y - a.y) * (b.y - a.y)
    IN  IF len = 0 \/ t <= 0 THEN dist(p, a)
        ELSE IF t >= l2 THEN dist(p, b)
        ELSE Abs(Cross(a, p, b)) \div len

pointToLineDist(p, a, b) ==
    LET len == dist(a, b)
    IN  IF len = 0 THEN dist(p, a)
        ELSE Abs(Cross(a, p, b)) \div len

---------------------------------------------------------------------------
(* Path simplifier (Ramer-Douglas-Peucker)                                 *)

\* The loop of rdp over i = from .. Len(pts) - 1: the running maximum and
\* its index; a later point replaces it only when strictly farther
RECURSIVE FarthestFrom(_, _, _, _)
FarthestFrom(pts, i, maxDist, index) ==
    IF i > Len(pts) - 1 THEN [maxDist |-> maxDist, index |-> index]
    ELSE LET d == pointToLineDist(pts[i], pts[1], pts[Len(pts)])
         IN  IF d > maxDist THEN FarthestFrom(pts, i + 1, d, i)
             ELSE FarthestFrom(pts, i + 1, maxDist, index)

\* Variant of RdpFarthest: the split index is one too far, as if the end
\* of slice(0, index + 1) were taken for the index
RdpFarthestShifted(pts) ==
    LET far == FarthestFrom(pts, 2, 0, 1)
    IN  [maxDist |-> far.maxDist, index |-> far.index + 1]

\* Indices are 1-based: index 1 (the source's 0) means no point was found
RdpFarthest(pts) == FarthestFrom(pts, 2, 0, 1)

\* Variant of RdpJoin: [...left, ...right], the split point kept twice
RdpJoinKeepingBoth(left, right) == left \o right

\* Variant of RdpJoin: [...left.slice(1), ...right], the slice taken at the
\* wrong end of left
RdpJoinDroppingFirst(left, right) == Tail(left) \o right

\* [...left.slice(0, -1), ...right]: the split point is kept once
RdpJoin(left, right) == SubSeq(left, 1, Len(left) - 1) \o right

RECURSIVE rdp(_, _)
rdp(pts, eps) ==
    IF Len(pts) <= 2 THEN pts
    ELSE LET far == RdpFarthest(pts)
         IN  IF far.maxDist > eps
             THEN RdpJoin(rdp(SubSeq(pts, 1, far.index), eps),
                          rdp(SubSeq(pts, far.index, Len(pts)), eps))
             ELSE <<pts[1], pts[Len(pts)]>>

---------------------------------------------------------------------------
(* Angular orderer                                                         *)

\* Where Math.atan2(dy, dx) falls: 1 for (-pi, 0), 2 for exactly 0 (also
\* atan2(0, 0)), 3 for (0, pi), 4 for exactly pi
AngleClass(dx, dy) ==
    IF dy < 0 THEN 1
    ELSE IF dy > 0 THEN 3
    ELSE IF dx >= 0 THEN 2 ELSE 4

\* Variant of AngleLess: points at equal angles count as out of order, as
\* under a sort that is not stable
AngleLessOrEqual(a, b, c) ==
    LET ca == AngleClass(a.x - c.x, a.y - c.y)
        cb == AngleClass(b.x - c.x, b.y - c.y)
    IN  \/ ca < cb
        \/ ca = cb /\ (ca \in {2, 4} \/ Cross(c, a, b) >= 0)

\* atan2(a.y - c.y, a.x - c.x) - atan2(b.y - c.y, b.x - c.x) < 0
AngleLess(a, b, c) ==
    LET ca == AngleClass(a.x - c.x, a.y - c.y)
        cb == AngleClass(b.x - c.x, b.y - c.y)
    IN  \/ ca < cb
        \/ ca = cb /\ ca \in {1, 3} /\ Cross(c, a, b) > 0

\* Array.prototype.sort is stable: an element goes after the earlier ones
\* it does not precede
RECURSIVE InsertByAngle(_, _, _)
InsertByAngle(p, s, c) ==
    IF s = <<>> THEN <<p>>
    ELSE IF AngleLess(p, s[Len(s)], c)
         THEN InsertByAngle(p, SubSeq(s, 1, Len(s) - 1), c) \o <<s[Len(s)]>>
         ELSE s \o <<p>>

RECURSIVE SortByAngle(_, _)
SortByAngle(s, c) ==
    IF s = <<>> THEN <<>>
    ELSE InsertByAngle(s[Len(s)], SortByAngle(SubSeq(s, 1, Len(s) - 1), c), c)

orderByAngle(pts) == SortByAngle(pts, centroid(pts))

---------------------------------------------------------------------------
(* Convex hull (monotone chain)                                            *)

\* (p1.x - p2.x) || (p1.y - p2.y) is negative
XYLess(p, q) == p.x < q.x \/ (p.x = q.x /\ p.y < q.y)

RECURSIVE InsertByXY(_, _)
InsertByXY(p, s) ==
    IF s = <<>> THEN <<p>>
    ELSE IF XYLess(p, s[Len(s)])
         THEN InsertByXY(p, SubSeq(s, 1, Len(s) - 1)) \o <<s[Len(s)]>>
         ELSE s \o <<p>>

\* Variant of SortByXY: the points in the order they were given
Unsorted(s) == s

RECURSIVE SortByXY(_)
SortByXY(s) ==
    IF s = <<>> THEN <<>>
    ELSE InsertByXY(s[Len(s)], SortByXY(SubSeq(s, 1, Len(s) - 1)))

\* The while loop of a chain: pop while the last two and p turn right or
\* go straight
RECURSIVE PopNonLeft(_, _)
PopNonLeft(chain, p) ==
    IF Len(chain) >= 2 /\ Cross(chain[Len(chain) - 1], chain[Len(chain)], p) <= 0
    THEN PopNonLeft(SubSeq(chain, 1, Len(chain) - 1), p)
    ELSE chain

\* One chain: the for loop over pts[i..] pushing each point
RECURSIVE HullChain(_, _, _)
HullChain(pts, i, chain) ==
    IF i > Len(pts) THEN chain
    ELSE HullChain(pts, i + 1, PopNonLeft(chain, pts[i]) \o <<pts[i]>>)

Reverse(s) == [i \in 1..Len(s) |-> s[Len(s) + 1 - i]]

convexHull(pts) ==
    IF Len(pts) <= 3 THEN pts
    ELSE LET sorted == SortByXY(pts)
             lower  == HullChain(sorted, 1, <<>>)
             upper  == HullChain(Reverse(sorted), 1, <<>>)
         IN  SubSeq(lower, 1, Len(lower) - 1) \o SubSeq(upper, 1, Len(upper) - 1)

---------------------------------------------------------------------------
(* Angles, areas, boxes                                                    *)

\* u - u^3/3 + u^5/5 - u^7/7 + u^9/9 for 0 <= u <= 0.4143
AtanSeries(u) ==
    LET u2 == (u * u) \div 10000
        u3 == (u * u2) \div 10000
        u5 == (u3 * u2) \div 10000
        u7 == (u5 * u2) \div 10000
        u9 == (u7 * u2) \div 10000
    IN  u - u3 \div 3 + u5 \div 5 - u7 \div 7 + u9 \div 9

\* atan(u) for 0 <= u <= 1: above tan(pi/8) it is pi/4 - atan((1-u)/(1+u))
AtanUnit(u) ==
    IF u <= 4142 THEN AtanSeries(u)
    ELSE 7854 - AtanSeries(((10000 - u) * 10000) \div (10000 + u))

\* Math.atan2(y, x) for y >= 0: an angle in 0 .. pi
Atan2Upper(y, x) ==
    IF y = 0 THEN (IF x >= 0 THEN 0 ELSE 31416)
    ELSE IF x = 0 THEN 15708
    ELSE IF Abs(x) <= y
         THEN (IF x > 0 THEN 15708 - AtanUnit(MulDiv(x, 10000, y))
                        ELSE 15708 + AtanUnit(MulDiv(-x, 10000, y)))
         ELSE (IF x > 0 THEN AtanUnit(MulDiv(y, 10000, x))
                        ELSE 31416 - AtanUnit(MulDiv(y, 10000, -x)))

\* The angle at b between the rays to a and to c: atan2(|cross|, dot)
angleBetween(a, b, c) ==
    LET dot   == (a.x - b.x) * (c.x - b.x) + (a.y - b.y) * (c.y - b.y)
        cross == (a.x - b.x) * (c.y - b.y) - (a.y - b.y) * (c.x - b.x)
    IN  Atan2Upper(Abs(cross), dot)

bbox(pts) ==
    LET xs == [i \in 1..Len(pts) |-> pts[i].x]
        ys == [i \in 1..Len(pts) |-> pts[i].y]
    IN  [w |-> MaxSeq(xs) - MinSeq(xs), h |-> MaxSeq(ys) - MinSeq(ys)]

\* Shoelace area, in hundredths of a square pixel
polygonArea(pts) ==
    IF Len(pts) < 3 THEN 0
    ELSE Abs(SumSeq([i \in 1..Len(pts) |->
              LET a == pts[i]
                  b == pts[(i % Len(pts)) + 1]
              IN  (a.x * b.y - a.y * b.x) \div 100])) \div 2

\* clamp01(num / den) for den > 0, in ten-thousandths
Clamp01Div(num, den) ==
    IF num <= 0 THEN 0
    ELSE IF num >= den THEN 10000
    ELSE (num * 10000) \div den

\* lerp(a, b, t) with a, b and t in ten-thousandths
lerp(a, b, t) == a + ((b - a) * t) \div 10000

\* Variant of DropClosing: the closing vertex is dropped even when only
\* 2 vertices remain
DropClosingEvenOfTwo(poly, perim, pct) ==
    IF Len(poly) > 1 /\ dist(poly[1], poly[Len(poly)]) * 100 < perim * pct
    THEN SubSeq(poly, 1, Len(poly) - 1)
    ELSE poly

\* The poly.slice(0, -1) of the three pipelines: the closing vertex is
\* dropped when more than 2 remain and it is within pct % of the perimeter
\* of the first
DropClosing(poly, perim, pct) ==
    IF Len(poly) > 2 /\ dist(poly[1], poly[Len(poly)]) * 100 < perim * pct
    THEN SubSeq(poly, 1, Len(poly) - 1)
    ELSE poly

\* ds.map(d => |d - avgR| / avgR) summed and divided by the count
AvgDeviation(ds, avgR) ==
    SumSeq([i \in 1..Len(ds) |-> MulDiv(Abs(ds[i] - avgR), 10000, avgR)])
        \div Len(ds)

---------------------------------------------------------------------------
(* Shape classifiers                                                       *)

NoShape ==
    [type |-> Null, confidence |-> 0, vertices |-> 0, description |-> [text |-> "", nums |-> <<>>],
     points |-> <<>>, color |-> ""]

NoCircle == [type |-> Null, confidence |-> 0, extra |-> <<>>]

\* Variant of IsClosedPath: 80 % of the perimeter instead of 8 %
IsClosedPathLoose(closeDist, perim) ==
    closeDist < 1800 \/ closeDist * 100 < perim * 80

\* closeDist < Math.max(18, perim * 0.08)
IsClosedPath(closeDist, perim) ==
    closeDist < 1800 \/ closeDist * 100 < perim * 8

\* Circle / oval detection.  extra holds circularity and aspect ratio.
circleOrOval(pts) ==
    IF Len(pts) < 10 THEN NoCircle
    ELSE
    LET closeDist == dist(pts[1], pts[Len(pts)])
        perim     == perimeter(pts)
        isClosed  == IsClosedPath(closeDist, perim)
    IN  IF ~isClosed THEN NoCircle
        ELSE
        LET eps  == Max2(600, (perim * 2) \div 100)
            poly == DropClosing(rdp(pts, eps), perim, 8)
        IN  IF Len(poly) < 6 THEN NoCircle
            ELSE
            LET A == polygonArea(orderByAngle(poly))
                P == perim
            IN  IF A <= 0 \/ P <= 0 THEN NoCircle
                ELSE
                LET P10     == P \div 10
                    circ    == (MulDiv(A, 10000, (P10 * P10) \div 100) * 12566)
                                   \div 100000
                    box     == bbox(pts)
                    minSide == Max2(100, Min2(box.w, box.h))
                    maxSide == Max2(box.w, box.h)
                    ar      == MulDiv(maxSide, 10000, minSide)
                    c       == centroid(pts)
                    ds      == [i \in 1..Len(pts) |-> dist(pts[i], c)]
                    avgR    == SumSeq(ds) \div Len(ds)
                IN  IF avgR < 1200 THEN NoCircle
                    ELSE
                    LET avgDev      == AvgDeviation(ds, avgR)
                        sCirc       == Clamp01Div(circ - 7000, 2500)
                        sARCircle   == Clamp01Div(12800 - ar, 2600)
                        sDev        == Clamp01Div(3000 - avgDev, 2000)
                        circleScore == (((sCirc * sARCircle) \div 10000)
                                           * lerp(6000, 10000, sDev)) \div 10000
                        sOvalCirc   == Clamp01Div(circ - 5800, 3200)
                        sAROVal     == Clamp01Div(ar - 11000, 11000)
                        ovalScore   == (sOvalCirc * sAROVal) \div 10000
                    IN  IF circleScore < 1800 /\ ovalScore < 1800 THEN NoCircle
                        ELSE IF circleScore >= ovalScore
                        THEN [type |-> "CIRCLE",
                              confidence |->
                                  Min2(99, Round(6000 + (circleScore * 39) \div 100)),
                              extra |-> <<circ, ar>>]
                        ELSE [type |-> "OVAL",
                              confidence |->
                                  Min2(99, Round(5500 + (ovalScore * 44) \div 100)),
                              extra |-> <<circ, ar>>]

NoStar(count, ratio) ==
    [match |-> FALSE, confidence |-> 0, simplifiedCount |-> count,
     concavityRatio |-> ratio]

\* The star-tolerance simplification, shared by isStarLike and the star
\* branch of recognizeFromPoints
StarPoly(pts) ==
    LET perim == perimeter(pts)
        eps   == Max2(500, (perim * 15) \div 1000)
    IN  DropClosing(rdp(pts, eps), perim, 8)

\* Variant of StarTooFewPoints: 10 raw points are enough for a star
StarTooFewPointsBelow10(pts) == Len(pts) < 10

\* if (points.length < 20): too few raw points for a star
StarTooFewPoints(pts) == Len(pts) < 20

\* Star detection: concavity through the hull ratio
isStarLike(pts) ==
    IF StarTooFewPoints(pts) THEN NoStar(0, 10000)
    ELSE
    LET cut == StarPoly(pts)
    IN  IF Len(cut) < 8 THEN NoStar(Len(cut), 10000)
        ELSE
        LET poly == orderByAngle(cut)
            A    == polygonArea(poly)
        IN  IF A <= 0 THEN NoStar(Len(poly), 10000)
            ELSE
            LET Ah == polygonArea(convexHull(poly))
            IN  IF Ah <= 0 THEN NoStar(Len(poly), 10000)
                ELSE
                LET ratio == MulDiv(A, 10000, Ah)
                    score == Clamp01Div(9200 - ratio, 3000)
                IN  IF score < 2800 THEN NoStar(Len(poly), ratio)
                    ELSE [match |-> TRUE,
                          confidence |->
                              Min2(99, Round(6000 + (score * 39) \div 100)),
                          simplifiedCount |-> Len(poly),
                          concavityRatio |-> ratio]

\* How equal the side lengths are (10000 = perfect)
regularityScore(ordered) ==
    LET n == Len(ordered)
    IN  IF n < 3 THEN 0
        ELSE
        LET sides == [i \in 1..n |-> dist(ordered[i], ordered[(i % n) + 1])]
            avg   == SumSeq(sides) \div n
        IN  IF avg <= 0 THEN 0
            ELSE Clamp01Div(3500 - AvgDeviation(sides, avg), 3500)

nameByN(n) ==
    CASE n = 5 -> "PENTAGON"
      [] n = 6 -> "HEXAGON"
      [] n = 7 -> "HEPTAGON"
      [] n = 8 -> "OCTAGON"
      [] n = 9 -> "ENNEAGON"
      [] n = 10 -> "DECAGON"
      [] OTHER -> "POLYGON (" \o ToString(n) \o ")"

\* The n === 2 branch
\* Variant of ClassifyLine: a length of exactly 20 is still too short
ClassifyLineAbove20(vertices) ==
    LET d == dist(vertices[1], vertices[2])
    IN  IF d <= 2000 THEN NoShape
        ELSE [type |-> "LINE", confidence |-> 90, vertices |-> 2,
              description |-> [text |-> "Length", nums |-> <<Round(d)>>],
              points |-> vertices, color |-> "hsla(175, 80%, 50%, 1)"]

ClassifyLine(vertices) ==
    LET d == dist(vertices[1], vertices[2])
    IN  IF d < 2000 THEN NoShape
        ELSE [type |-> "LINE", confidence |-> 90, vertices |-> 2,
              description |-> [text |-> "Length", nums |-> <<Round(d)>>],
              points |-> vertices, color |-> "hsla(175, 80%, 50%, 1)"]

\* Variant of TriangleTooSmall: a shortest side of exactly 15 is too small
TriangleTooSmallAt15(sides) == sides[1] <= 1500

\* if (sides[0] < 15) return null, sides in ascending order
TriangleTooSmall(sides) == sides[1] < 1500

\* Variant of TriangleKind: a right angle names the triangle only when
\* its sides have not named it
TriangleKindSidesFirst(hasRight, equilateral, isosceles) ==
    IF equilateral THEN "EQUILATERAL TRIANGLE"
    ELSE IF isosceles THEN "ISOSCELES TRIANGLE"
    ELSE IF hasRight THEN "RIGHT TRIANGLE"
    ELSE "TRIANGLE"

\* The subtype the n === 3 branch ends with: hasRight is assigned last
TriangleKind(hasRight, equilateral, isosceles) ==
    IF hasRight THEN "RIGHT TRIANGLE"
    ELSE IF equilateral THEN "EQUILATERAL TRIANGLE"
    ELSE IF isosceles THEN "ISOSCELES TRIANGLE"
    ELSE "TRIANGLE"

\* The n === 3 branch
ClassifyTriangle(vertices) ==
    LET ordered == orderByAngle(vertices)
        sides   == SortNum(<<dist(ordered[1], ordered[2]),
                             dist(ordered[2], ordered[3]),
                             dist(ordered[3], ordered[1])>>)
    IN  IF TriangleTooSmall(sides) THEN NoShape
        ELSE
        LET angles == <<angleBetween(ordered[3], ordered[1], ordered[2]),
                        angleBetween(ordered[1], ordered[2], ordered[3]),
                        angleBetween(ordered[2], ordered[3], ordered[1])>>
            equilateral == sides[1] * 100 > 85 * sides[3]
            isosceles   ==
                \/ Abs(sides[1] - sides[2]) * 100 < 15 * sides[3]
                \/ Abs(sides[2] - sides[3]) * 100 < 15 * sides[3]
            hasRight == \E i \in 1..3 : Abs(angles[i] - 15708) < 2000
            subtype  == TriangleKind(hasRight, equilateral, isosceles)
            conf     == IF hasRight THEN 8500
                        ELSE IF equilateral
                             THEN 8500 + MulDiv(sides[1], 1500, sides[3])
                        ELSE IF isosceles THEN 8000
                        ELSE 7000
        IN  [type |-> subtype, confidence |-> Min2(99, Round(conf)),
             vertices |-> 3,
             description |-> [text |-> "3 vertices",
                             nums |-> <<Round(sides[1]), Round(sides[2]),
                                        Round(sides[3])>>],
             points |-> ordered, color |-> "hsla(35, 90%, 55%, 1)"]

\* Variant of QuadKind: similar sides are looked at before right angles
QuadKindDiamondFirst(isRectish, sideMin, sideMax) ==
    IF isRectish /\ sideMin * 10 > 8 * sideMax THEN "SQUARE"
    ELSE IF sideMin * 10 > 7 * sideMax THEN "DIAMOND"
    ELSE IF isRectish THEN "RECTANGLE"
    ELSE "QUADRILATERAL"

\* The order of the four returns of the n === 4 branch
QuadKind(isRectish, sideMin, sideMax) ==
    IF isRectish /\ sideMin * 10 > 8 * sideMax THEN "SQUARE"
    ELSE IF isRectish THEN "RECTANGLE"
    ELSE IF sideMin * 10 > 7 * sideMax THEN "DIAMOND"
    ELSE "QUADRILATERAL"

\* The n === 4 branch.  A zero sideMax makes sideRatio NaN in the source:
\* both comparisons with it are false, as they are here.
ClassifyQuad(vertices) ==
    LET ordered == orderByAngle(vertices)
        sides   == [i \in 1..4 |-> dist(ordered[i], ordered[(i % 4) + 1])]
        angles  == [i \in 1..4 |->
                       angleBetween(ordered[((i + 2) % 4) + 1], ordered[i],
                                    ordered[(i % 4) + 1])]
        sideMin == MinSeq(sides)
        sideMax == MaxSeq(sides)
        maxAngleDiff == MaxSeq([i \in 1..4 |-> Abs(angles[i] - 15708)])
        isRectish    == maxAngleDiff < 3500
        kind         == QuadKind(isRectish, sideMin, sideMax)
    IN  IF kind = "SQUARE"
        THEN [type |-> "SQUARE",
              confidence |->
                  Min2(99, Round(7000 + MulDiv(sideMin, 2000, sideMax)
                                      + (10000 - maxAngleDiff) \div 10)),
              vertices |-> 4,
              description |-> [text |-> "4 vertices, angles ~90", nums |-> <<>>],
              points |-> ordered, color |-> "hsla(280, 60%, 55%, 1)"]
        ELSE IF kind = "RECTANGLE"
        THEN [type |-> "RECTANGLE",
              confidence |->
                  Min2(99, Round(7500 + 2500 - (maxAngleDiff * 2500) \div 3500)),
              vertices |-> 4,
              description |-> [text |-> "4 vertices",
                              nums |-> <<Round(sideMin), Round(sideMax)>>],
              points |-> ordered, color |-> "hsla(210, 70%, 55%, 1)"]
        ELSE IF kind = "DIAMOND"
        THEN [type |-> "DIAMOND",
              confidence |->
                  Min2(99, Round(6500 + MulDiv(sideMin, 3000, sideMax))),
              vertices |-> 4,
              description |-> [text |-> "4 vertices, similar sides", nums |-> <<>>],
              points |-> ordered, color |-> "hsla(330, 70%, 55%, 1)"]
        ELSE [type |-> "QUADRILATERAL", confidence |-> 60, vertices |-> 4,
              description |-> [text |-> "4 irregular vertices", nums |-> <<>>],
              points |-> ordered, color |-> "hsla(50, 60%, 50%, 1)"]

\* Variant of RegularConfidence: the confidence of up to 10 vertices is
\* used for every count
RegularConfidenceAlwaysBase(n, reg) == 6200 + (reg * 30) \div 100

\* n <= 10 ? base : 50 + reg * 20, before rounding
RegularConfidence(n, reg) ==
    IF n <= 10 THEN 6200 + (reg * 30) \div 100
    ELSE 5000 + (reg * 20) \div 100

\* Variant of ClassifyRegular: the points list holds only the vertices on
\* the convex hull while vertices still counts them all
ClassifyRegularHullPoints(vertices) ==
    LET n       == Len(vertices)
        ordered == orderByAngle(vertices)
        reg     == regularityScore(ordered)
        conf    == Min2(99, Round(RegularConfidence(n, reg)))
    IN  [type |-> nameByN(n), confidence |-> conf, vertices |-> n,
         description |-> [text |-> "vertices detected, regularity",
                         nums |-> <<n, Round(reg)>>],
         points |-> convexHull(ordered),
         color |-> IF n <= 6 THEN "hsla(200, 80%, 55%, 1)"
                   ELSE "hsla(60, 60%, 50%, 1)"]

\* The n >= 5 branch
ClassifyRegular(vertices) ==
    LET n       == Len(vertices)
        ordered == orderByAngle(vertices)
        reg     == regularityScore(ordered)
        conf    == Min2(99, Round(RegularConfidence(n, reg)))
    IN  [type |-> nameByN(n), confidence |-> conf, vertices |-> n,
         description |-> [text |-> "vertices detected, regularity",
                         nums |-> <<n, Round(reg)>>],
         points |-> ordered,
         color |-> IF n <= 6 THEN "hsla(200, 80%, 55%, 1)"
                   ELSE "hsla(60, 60%, 50%, 1)"]

\* Detect the shape from simplified vertices
classifyPolygon(vertices) ==
    LET n == Len(vertices)
    IN  IF n = 2 THEN ClassifyLine(vertices)
        ELSE IF n = 3 THEN ClassifyTriangle(vertices)
        ELSE IF n = 4 THEN ClassifyQuad(vertices)
        ELSE IF n >= 5 THEN ClassifyRegular(vertices)
        ELSE NoShape

---------------------------------------------------------------------------
(* Recognition pipeline                                                    *)

\* Variant of TooFew: only the empty input is too few
TooFewWhenEmpty(pts) == Len(pts) < 1

\* Variant of IsSparse: 6 points already count as a freehand stroke
IsSparseBelowSix(pts) == Len(pts) < 6

\* Variant of IsSparse: a module-level flag set by the first call sends
\* every later input down the freehand pipeline
IsSparseOnFirstCall(pts) == Len(pts) <= 6 /\ op = "idle"

\* points.length < 2: too few to classify
TooFew(pts) == Len(pts) < 2

\* points.length <= 6: explicit vertices, classified as they are
IsSparse(pts) == Len(pts) <= 6

\* Stage 1: the shape built from a circle / oval match co
CircleShape(pts, co) ==
    LET c    == centroid(pts)
        avgR == SumSeq([i \in 1..Len(pts) |-> dist(pts[i], c)]) \div Len(pts)
    IN  [type |-> co.type, confidence |-> co.confidence, vertices |-> 0,
         description |->
             IF co.type = "CIRCLE"
             THEN [text |-> "Radius", nums |-> <<Round(avgR)>> \o co.extra]
             ELSE [text |-> "Oval", nums |-> co.extra],
         points |-> <<c>>, color |-> "hsla(175, 80%, 50%, 1)"]

\* Stage 2: the shape built from a star match
StarShape(pts, star) ==
    LET poly == orderByAngle(StarPoly(pts))
    IN  [type |-> "STAR", confidence |-> star.confidence,
         vertices |-> Len(poly),
         description |->
             [text |-> "Concave", nums |-> <<star.concavityRatio, Len(poly)>>],
         points |-> poly, color |-> "hsla(45, 90%, 60%, 1)"]

\* Stage 3: the simplified path, without its last point when that one
\* closes the shape
FallbackVerts(pts) ==
    LET perim == perimeter(pts)
        eps   == Max2(800, (perim * 4) \div 100)
    IN  DropClosing(rdp(pts, eps), perim, 10)

\* Stage 3: simplify and classify the polygon
PolygonFallback(pts) == classifyPolygon(FallbackVerts(pts))

\* Variant of RunDense: the polygon classifier is asked first and the
\* circle and star detectors only when it finds nothing
RunDensePolygonFirst(pts) ==
    LET poly == PolygonFallback(pts)
        co   == circleOrOval(pts)
        star == isStarLike(pts)
    IN  IF poly.type # Null
        THEN [shape |-> poly, stages |-> <<"rdp", "classifyPolygon">>]
        ELSE IF co.type # Null
        THEN [shape |-> CircleShape(pts, co),
              stages |-> <<"rdp", "classifyPolygon", "circleOrOval">>]
        ELSE IF star.match
        THEN [shape |-> StarShape(pts, star),
              stages |-> <<"rdp", "classifyPolygon", "circleOrOval",
                           "isStarLike", "rdp">>]
        ELSE [shape |-> NoShape,
              stages |-> <<"rdp", "classifyPolygon", "circleOrOval",
                           "isStarLike">>]

\* The freehand pipeline on more than 6 points, in its order of precedence
RunDense(pts) ==
    LET co == circleOrOval(pts)
    IN  IF co.type # Null
        THEN [shape |-> CircleShape(pts, co), stages |-> <<"circleOrOval">>]
        ELSE
        LET star == isStarLike(pts)
        IN  IF star.match
            THEN [shape |-> StarShape(pts, star),
                  stages |-> <<"circleOrOval", "isStarLike", "rdp">>]
            ELSE [shape |-> PolygonFallback(pts),
                  stages |-> <<"circleOrOval", "isStarLike", "rdp",
                               "classifyPolygon">>]

\* recognizeFromPoints with the detectors it ran: shape is what the source
\* returns (NoShape for null), stages the calls it made on the way
recognizeRun(pts) ==
    IF TooFew(pts) THEN [shape |-> NoShape, stages |-> <<>>]
    ELSE IF IsSparse(pts)
    THEN [shape |-> classifyPolygon(pts), stages |-> <<"classifyPolygon">>]
    ELSE RunDense(pts)

recognizeFromPoints(pts) == recognizeRun(pts).shape

\* Variant of ArgAfterOrderByAngle: pts.sort(...), the argument itself is
\* sorted
ArgSortedInPlace(pts) == orderByAngle(pts)

\* What a call leaves in the array it was handed.  orderByAngle sorts
\* [...pts], convexHull sorts [...points], rdp takes slices: each works on
\* a copy.

ArgAfterOrderByAngle(pts) == pts

ArgAfterConvexHull(pts) == pts

ArgAfterRdp(pts) == pts

\* classifyPolygon hands 3 or more vertices to orderByAngle
ArgAfterClassifyPolygon(vertices) ==
    IF Len(vertices) >= 3 THEN ArgAfterOrderByAngle(vertices) ELSE vertices

\* recognizeFromPoints hands at most 6 points to classifyPolygon; more than
\* 6 go to rdp and to centroid, perimeter, bbox and dist, which only read
InputAfter(pts) ==
    IF TooFew(pts) THEN pts
    ELSE IF IsSparse(pts) THEN ArgAfterClassifyPolygon(pts)
    ELSE ArgAfterRdp(pts)

\* rdp returns its argument itself when it holds 2 or fewer points
RdpReturnsArg(pts) == Len(pts) <= 2

\* The LINE result of classifyPolygon has its argument itself as points;
\* every other result has the array orderByAngle allocated
ClassifyKeepsArg(vertices) ==
    Len(vertices) = 2 /\ ClassifyLine(vertices).type # Null

\* TRUE when the points of the result are the caller's array object: the
\* array went to classifyPolygon as it was, or (more than 6 points) only the
\* polygon fallback could pass on what rdp returned
ResultSharesInput(pts) ==
    /\ ~TooFew(pts)
    /\ IF IsSparse(pts) THEN ClassifyKeepsArg(pts)
       ELSE RdpReturnsArg(pts) /\ ClassifyKeepsArg(pts)

\* The circularity check of the first half of the file
isCircle(pts) ==
    IF Len(pts) < 10 THEN [match |-> FALSE, confidence |-> 0]
    ELSE
    LET c         == centroid(pts)
        distances == [i \in 1..Len(pts) |-> dist(pts[i], c)]
        avgR      == SumSeq(distances) \div Len(distances)
    IN  IF avgR < 1500 THEN [match |-> FALSE, confidence |-> 0]
        ELSE
        LET avgDev    == AvgDeviation(distances, avgR)
            closeDist == dist(pts[1], pts[Len(pts)])
            isClosed  == closeDist * 2 < avgR
        IN  IF ~isClosed \/ avgDev > 2500
            THEN [match |-> FALSE, confidence |-> 0]
            ELSE LET confidence == Round(Max2(0, 10000 - avgDev * 4))
                 IN  [match |-> confidence > 40, confidence |-> confidence]

---------------------------------------------------------------------------
(* Inputs                                                                  *)

\* The longest explicit-vertex input (points mode) that is enumerated
MaxPoints == 3

\* The largest magnification of a freehand stroke
MaxScale == 3

\* The longest path handed to rdp, the longest vertex list handed to
\* orderByAngle, the longest point list handed to convexHull
MaxPath == 4

MaxVerts == 5

MaxHull == 5

SeqsUpTo(S, n) == UNION {[1..k -> S] : k \in 0..n}

\* Click positions whose distances fall on both sides of the minimum line
\* length and of the minimum triangle side
ClickGrid == {Px(x, y) : x \in {0, 12, 30}, y \in {0, 12, 30}}

\* A small lattice for the geometric helpers
Lattice == {Px(x, y) : x \in {0, 1, 2}, y \in {0, 1, 2}}

\* 24 samples round a circle of radius 16
CircleStroke ==
    <<<<34, 18>>, <<33, 22>>, <<32, 26>>, <<29, 29>>, <<26, 32>>,
      <<22, 33>>, <<18, 34>>, <<14, 33>>, <<10, 32>>, <<7, 29>>, <<4, 26>>,
      <<3, 22>>, <<2, 18>>, <<3, 14>>, <<4, 10>>, <<7, 7>>, <<10, 4>>,
      <<14, 3>>, <<18, 2>>, <<22, 3>>, <<26, 4>>, <<29, 7>>, <<32, 10>>,
      <<33, 14>>>>

\* 24 samples round an ellipse of radii 20 and 10
OvalStroke ==
    <<<<42, 12>>, <<41, 15>>, <<39, 17>>, <<36, 19>>, <<32, 21>>,
      <<27, 22>>, <<22, 22>>, <<17, 22>>, <<12, 21>>, <<8, 19>>, <<5, 17>>,
      <<3, 15>>, <<2, 12>>, <<3, 9>>, <<5, 7>>, <<8, 5>>, <<12, 3>>,
      <<17, 2>>, <<22, 2>>, <<27, 2>>, <<32, 3>>, <<36, 5>>, <<39, 7>>,
      <<41, 9>>>>

\* 30 samples along a 5-pointed star, outer radius 20, inner 8
StarStroke ==
    <<<<22, 2>>, <<24, 7>>, <<25, 11>>, <<27, 16>>, <<31, 16>>, <<36, 16>>,
      <<41, 16>>, <<37, 19>>, <<33, 22>>, <<30, 24>>, <<31, 29>>,
      <<32, 34>>, <<34, 38>>, <<30, 35>>, <<26, 33>>, <<22, 30>>,
      <<18, 33>>, <<14, 35>>, <<10, 38>>, <<12, 34>>, <<13, 29>>,
      <<14, 24>>, <<11, 22>>, <<7, 19>>, <<3, 16>>, <<8, 16>>, <<13, 16>>,
      <<17, 16>>, <<19, 11>>, <<20, 7>>>>

\* The 10 corners of StarStroke, one sample each: a star drawn fast
StarCorners == [i \in 1..10 |-> StarStroke[3 * i - 2]]

\* The 12 corners of a 6-pointed star, outer radius 30, inner 12
HexagramCorners ==
    <<<<32, 2>>, <<38, 22>>, <<58, 17>>, <<44, 32>>, <<58, 47>>, <<38, 42>>,
      <<32, 62>>, <<26, 42>>, <<6, 47>>, <<20, 32>>, <<6, 17>>, <<26, 22>>>>

\* 20 samples along a square of side 30
SquareStroke ==
    <<<<2, 2>>, <<8, 2>>, <<14, 2>>, <<20, 2>>, <<26, 2>>, <<32, 2>>,
      <<32, 8>>, <<32, 14>>, <<32, 20>>, <<32, 26>>, <<32, 32>>,
      <<26, 32>>, <<20, 32>>, <<14, 32>>, <<8, 32>>, <<2, 32>>, <<2, 26>>,
      <<2, 20>>, <<2, 14>>, <<2, 8>>>>

\* 21 samples along a triangle
TriangleStroke ==
    <<<<2, 2>>, <<7, 2>>, <<12, 2>>, <<17, 2>>, <<22, 2>>, <<27, 2>>,
      <<32, 2>>, <<37, 2>>, <<34, 6>>, <<32, 11>>, <<29, 15>>, <<27, 19>>,
      <<24, 23>>, <<22, 28>>, <<19, 32>>, <<17, 28>>, <<14, 23>>,
      <<12, 19>>, <<9, 15>>, <<7, 11>>, <<4, 6>>>>

\* 9 samples along a straight segment
LineStroke ==
    <<<<2, 2>>, <<7, 4>>, <<12, 7>>, <<17, 10>>, <<22, 12>>, <<27, 14>>,
      <<32, 17>>, <<37, 20>>, <<42, 22>>>>

\* 7 samples of an open arc
ArcStroke ==
    <<<<2, 2>>, <<10, 1>>, <<18, 2>>, <<25, 8>>, <<29, 16>>, <<29, 24>>,
      <<25, 32>>>>

\* 20 samples at distance exactly 25 from (25, 25)
RingStroke ==
    <<<<50, 25>>, <<49, 32>>, <<45, 40>>, <<40, 45>>, <<32, 49>>,
      <<25, 50>>, <<18, 49>>, <<10, 45>>, <<5, 40>>, <<1, 32>>, <<0, 25>>,
      <<1, 18>>, <<5, 10>>, <<10, 5>>, <<18, 1>>, <<25, 0>>, <<32, 1>>,
      <<40, 5>>, <<45, 10>>, <<49, 18>>>>

\* 9 samples round an octagon of radius 25, the last on the first
OctagonStroke ==
    <<<<50, 25>>, <<43, 43>>, <<25, 50>>, <<7, 43>>, <<0, 25>>, <<7, 7>>,
      <<25, 0>>, <<43, 7>>, <<50, 25>>>>

\* The first 16 samples of RingStroke: three quarters of a circle, left open
HorseshoeStroke == SubSeq(RingStroke, 1, 16)

\* 13 samples of an open zigzag
ZigzagStroke ==
    <<<<2, 2>>, <<6, 22>>, <<10, 2>>, <<14, 22>>, <<18, 2>>, <<22, 22>>,
      <<26, 2>>, <<30, 22>>, <<34, 2>>, <<38, 22>>, <<42, 2>>, <<46, 22>>,
      <<50, 2>>>>

BaseStrokes ==
    {CircleStroke, OvalStroke, StarStroke, StarCorners, HexagramCorners,
     SquareStroke,
     TriangleStroke,
     LineStroke, ArcStroke, RingStroke, OctagonStroke, HorseshoeStroke,
     ZigzagStroke}

\* The stroke magnified k times, in hundredths of a pixel
Scaled(stroke, k) ==
    [i \in 1..Len(stroke) |-> Px(stroke[i][1] * k, stroke[i][2] * k)]

\* The same closed stroke begun r samples later
Rotated(stroke, r) ==
    SubSeq(stroke, r + 1, Len(stroke)) \o SubSeq(stroke, 1, r)

\* Explicit vertex lists of 2 to 6 clicks, some with a length exactly on a
\* threshold of the classifier, some with two clicks in one direction from
\* their centroid
VertexLists ==
    {<<Px(0, 0), Px(50, 0)>>,
     <<Px(0, 0), Px(5, 0)>>,
     <<Px(0, 0), Px(12, 16)>>,
     <<Px(0, 0), Px(9, 12), Px(40, 0)>>,
     <<Px(0, 0), Px(100, 0), Px(100, 80), Px(0, 80)>>,
     <<Px(40, 0), Px(80, 15), Px(40, 30), Px(0, 15)>>,
     <<Px(0, 0), Px(35, 0), Px(35, 35), Px(0, 35)>>,
     <<Px(0, 0), Px(100, 0), Px(100, 100), Px(0, 100)>>,
     <<Px(0, 0), Px(100, 100), Px(100, 0), Px(0, 100)>>,
     <<Px(0, 0), Px(120, 0), Px(120, 50), Px(0, 50)>>,
     <<Px(50, 0), Px(100, 40), Px(50, 80), Px(0, 40)>>,
     <<Px(0, 0), Px(90, 10), Px(40, 70), Px(10, 30)>>,
     <<Px(0, 0), Px(10, 0), Px(10, 10), Px(0, 10)>>,
     <<Px(7, 7), Px(7, 7), Px(7, 7), Px(7, 7)>>,
     <<Px(0, 0), Px(30, 0), Px(90, 0)>>,
     <<Px(50, 50), Px(70, 70), Px(0, 40), Px(40, 0)>>,
     <<Px(50, 50), Px(40, 80), Px(50, 40), Px(70, 20), Px(20, 30)>>,
     <<Px(0, 0), Px(100, 0), Px(100, 100), Px(0, 100), Px(75, 75), Px(25, 25)>>,
     <<Px(50, 0), Px(98, 35), Px(79, 90), Px(21, 90), Px(2, 35)>>,
     <<Px(0, 0), Px(60, 0), Px(60, 20), Px(10, 30), Px(0, 90)>>,
     <<Px(100, 50), Px(75, 93), Px(25, 93), Px(0, 50), Px(25, 7), Px(75, 7)>>,
     <<Px(0, 0), Px(5, 0), Px(5, 5), Px(0, 5), Px(2, 2), Px(3, 3)>>}

SparseInputs == SeqsUpTo(ClickGrid, MaxPoints) \cup VertexLists

\* Every stroke at every magnification, begun at every one of its samples
DenseInputs ==
    UNION {{Rotated(Scaled(s, k), r) : k \in 1..MaxScale, r \in 0..(Len(s) - 1)}
               : s \in BaseStrokes}

Tolerances == {0, 50, 100, 150}

---------------------------------------------------------------------------
(* DrawingCanvas (src/src/components/DrawingCanvas.tsx)                    *)

\* The useState values of a canvas that has just been mounted
Mounted ==
    [mode |-> "draw", isDrawing |-> FALSE, currentPath |-> <<>>,
     placedPoints |-> <<>>, result |-> NoShape, showResult |-> FALSE,
     history |-> <<>>]

\* clear(): the path, the placed points and the result go; the mode, the
\* drawing flag and the history stay
clear(c) ==
    [c EXCEPT !.currentPath = <<>>, !.placedPoints = <<>>,
              !.result = NoShape, !.showResult = FALSE]

\* The length the history is cut to
HistoryLimit == 20

\* Variant of Remember: the new shape goes to the end of the history
RememberAtEnd(sh, prev) ==
    SubSeq(prev \o <<sh>>, 1, Min2(Len(prev) + 1, HistoryLimit))

\* Variant of Remember: the history is never cut
RememberAll(sh, prev) == <<sh>> \o prev

\* [shape, ...prev].slice(0, 20)
Remember(sh, prev) ==
    SubSeq(<<sh>> \o prev, 1, Min2(Len(prev) + 1, HistoryLimit))

\* The two branches of recognize, on the shape the engine returned
Show(c, sh) ==
    IF sh.type # Null
    THEN [c EXCEPT !.result = sh, !.showResult = TRUE,
                   !.history = Remember(sh, c.history)]
    ELSE [c EXCEPT !.result = NoShape, !.showResult = TRUE]

\* recognize(pts): the result is shown, and remembered when it is a shape
recognize(c, pts) == Show(c, recognizeFromPoints(pts))

\* Variant of LongEnough: any stroke is recognised
LongEnoughAlways(path) == Len(path) >= 0

\* currentPath.length > 5
LongEnough(path) == Len(path) > 5

\* Variant of StrokeOpen: the drawing flag is not looked at
StrokeOpenInDrawMode(c) == c.mode = "draw"

\* mode === "draw" && isDrawing
StrokeOpen(c) == c.mode = "draw" /\ c.isDrawing

\* placedPoints.length >= 2
EnoughPlaced(placed) == Len(placed) >= 2

\* The RECOGNIZE SHAPE button is rendered
FinishShown(c) ==
    c.mode = "points" /\ Len(c.placedPoints) >= 2 /\ ~c.showResult

\* The CLEAR button is rendered
ClearShown(c) == Len(c.currentPath) > 0 \/ Len(c.placedPoints) > 0

\* Strokes of the mouse over the canvas: 7 samples on one spot, and 6
\* samples 10 px apart along a straight line
DotStroke == [i \in 1..7 |-> Px(10, 10)]

DashStroke == [i \in 1..6 |-> Px(10 + 10 * i, 10)]

CanvasStrokes == {DotStroke, DashStroke}

\* Runs of clicks in points mode: three on one spot, and two 60 px apart
CanvasClicks == {<<Px(10, 10), Px(10, 10), Px(10, 10)>>,
                 <<Px(20, 10), Px(80, 10)>>}

\* Where the next mouse event can be, given the samples taken so far
NextOf(runs, sofar) ==
    {t[Len(sofar) + 1] :
        t \in {u \in runs : /\ Len(u) > Len(sofar)
                            /\ SubSeq(u, 1, Len(sofar)) = sofar}}

\* The number of shapes at the start of a session that may be any shape;
\* those recognised later are all the hexagon of six samples on one spot
MaxVaried == 1

\* The session may go on to the canvas c
Allowed(c) ==
    \/ c.result = NoShape
    \/ c.result.points = SubSeq(DotStroke, 1, 6)
    \/ Len(c.history) <= MaxVaried

\* Nothing asked of recognizeFromPoints, and no stroke begun.  samples
\* counts the samples of the current stroke up to 6, which stands for
\* more than 5; inStroke counts the recognitions it has triggered.
NoCalls ==
    [event |-> "", made |-> FALSE, arg |-> <<>>, matched |-> FALSE,
     samples |-> 0, inStroke |-> 0]

\* The latest event was handled without a call of recognizeFromPoints
Quiet(event) ==
    [calls EXCEPT !.event = event, !.made = FALSE, !.arg = <<>>,
                  !.matched = FALSE]

\* The same for the events that never lead to one
Other == Quiet("")

\* The latest event called recognize(pts), which left the canvas as after
Asked(event, pts, after) ==
    [calls EXCEPT !.event = event, !.made = TRUE, !.arg = pts,
                  !.matched = after.result # NoShape,
                  !.inStroke = IF event = "finishPoints" THEN @ ELSE @ + 1]

---------------------------------------------------------------------------
(* PatternCanvas (src/src/components/PatternCanvas.tsx)                    *)

\* The refs of a canvas that has just been mounted: no nodes, no patterns
NoField == [nodes |-> <<>>, patterns |-> <<>>, lastDetect |-> 0]

NoPass == [timestamp |-> 0, ran |-> FALSE, added |-> 0]

\* { valid: false, confidence: 0 }
Invalid == [valid |-> FALSE, confidence |-> 0]

\* { valid: true, confidence }, the confidence in hundredths
Valid(confidence) == [valid |-> TRUE, confidence |-> confidence]

\* min / max in ten-thousandths (0 / 0 is NaN in the source: it fails every
\* comparison, as 0 does where it is compared here)
Ratio(min, max) == IF max = 0 THEN 0 ELSE MulDiv(min, 10000, max)

\* isTriangle: sides of 40 to 200 px, no angle below 0.35 rad
isTriangle(a, b, c) ==
    LET sides  == SortNum(<<dist(a, b), dist(b, c), dist(a, c)>>)
        angles == <<angleBetween(a, b, c), angleBetween(b, c, a),
                    angleBetween(c, a, b)>>
    IN  IF sides[1] < 4000 \/ sides[3] > 20000 THEN Invalid
        ELSE IF MinSeq(angles) < 3500 THEN Invalid
        ELSE Valid(5000 + (Ratio(sides[1], sides[3]) * 50) \div 100)

\* isSquare: sides of 35 to 200 px, every angle within 0.5 rad of pi / 2
isSquare(pts) ==
    LET ordered == orderByAngle(pts)
        sides   == [i \in 1..4 |-> dist(ordered[i], ordered[(i % 4) + 1])]
        angles  == [i \in 1..4 |->
                       angleBetween(ordered[i], ordered[(i % 4) + 1],
                                    ordered[((i + 1) % 4) + 1])]
        maxAngleDiff == MaxSeq([i \in 1..4 |-> Abs(angles[i] - 15708)])
    IN  IF MinSeq(sides) < 3500 \/ MaxSeq(sides) > 20000 THEN Invalid
        ELSE IF maxAngleDiff > 5000 THEN Invalid
        ELSE Valid(4000 + (Ratio(MinSeq(sides), MaxSeq(sides)) * 30) \div 100
                        + ((10000 - 2 * maxAngleDiff) * 30) \div 100)

\* isDiamond: sides of 35 to 200 px and alike, diagonals unlike
isDiamond(pts) ==
    LET ordered   == orderByAngle(pts)
        sides     == [i \in 1..4 |-> dist(ordered[i], ordered[(i % 4) + 1])]
        sideRatio == Ratio(MinSeq(sides), MaxSeq(sides))
        d1        == dist(ordered[1], ordered[3])
        d2        == dist(ordered[2], ordered[4])
        diagRatio == Ratio(Min2(d1, d2), Max2(d1, d2))
    IN  IF MinSeq(sides) < 3500 \/ MaxSeq(sides) > 20000 THEN Invalid
        ELSE IF sideRatio < 6000 THEN Invalid
        ELSE IF diagRatio > 9000 THEN Invalid
        ELSE Valid(5000 + (sideRatio * 30) \div 100
                        + ((10000 - diagRatio) * 20) \div 100)

\* isLine: 3 or more points spanning 80 to 350 px, none more than 15 px
\* off the line from the first to the last in x, y order
isLine(pts) ==
    IF Len(pts) < 3 THEN Invalid
    ELSE LET sorted == SortByXY(pts)
             first  == sorted[1]
             last   == sorted[Len(sorted)]
             len    == dist(first, last)
             devs   == [i \in 1..Len(sorted) |->
                           IF i = 1 \/ i = Len(sorted) THEN 0
                           ELSE Abs((sorted[i].x - first.x) * (last.y - first.y)
                                  - (sorted[i].y - first.y) * (last.x - first.x))
                                \div len]
         IN  IF len < 8000 \/ len > 35000 THEN Invalid
             ELSE IF MaxSeq(devs) > 1500 THEN Invalid
             ELSE Valid(6000 + ((10000 - Ratio(MaxSeq(devs), 1500)) * 40)
                               \div 100)

\* Node positions the field takes: 4 nodes in a row, the last of them a
\* corner of a square; 3 nodes close together and a diamond far from them
SquareField ==
    <<Px(0, 30), Px(60, 30), Px(120, 30), Px(180, 30),
      Px(218, 30), Px(218, 68), Px(180, 68)>>

DiamondField ==
    <<Px(0, 30), Px(5, 30), Px(10, 30), Px(200, 30),
      Px(218, 61), Px(200, 92), Px(182, 61)>>

Fields == {SquareField, DiamondField}

\* The nodes at the positions at, each with its patternId
Placed(at, ids) ==
    [i \in 1..Len(at) |-> [x |-> at[i].x, y |-> at[i].y, patternId |-> ids[i]]]

\* Frames are this many milliseconds apart
FrameGaps == {1000, 2000}

MaxTime == 7000

\* Variant of StillAlive: a pattern of exactly 5000 ms is kept
StillAliveAt5000(p, timestamp) == timestamp - p.birth <= 5000

\* timestamp - p.birth < 5000
StillAlive(p, timestamp) == timestamp - p.birth < 5000

\* Variant of NotFound: a stage runs whatever the stages before it found
NotFoundIgnored(found) == TRUE

\* if (!found)
NotFound(found) == ~found

\* nodes.map((n, i) => ({ ...n, idx: i })).filter((_, i) => !usedNodes.has(i));
\* indices are 1-based (the source's i + 1)
Available(nodes, usedNodes) ==
    SelectSeq([i \in 1..Len(nodes) |->
                  [x |-> nodes[i].x, y |-> nodes[i].y, idx |-> i]],
              LAMBDA n : n.idx \notin usedNodes)

\* .sort((a, b) => dist(a, pivot) - dist(b, pivot)), a stable sort
RECURSIVE InsertByDist(_, _, _)
InsertByDist(n, s, pivot) ==
    IF s = <<>> THEN <<n>>
    ELSE IF dist(n, pivot) < dist(s[Len(s)], pivot)
         THEN InsertByDist(n, SubSeq(s, 1, Len(s) - 1), pivot) \o <<s[Len(s)]>>
         ELSE s \o <<n>>

RECURSIVE SortByDist(_, _)
SortByDist(s, pivot) ==
    IF s = <<>> THEN <<>>
    ELSE InsertByDist(s[Len(s)], SortByDist(SubSeq(s, 1, Len(s) - 1), pivot),
                      pivot)

\* The available nodes less than radius from the pivot, the nearest first
Nearby(pivot, available, radius) ==
    SortByDist(SelectSeq(available,
                         LAMBDA n : n.idx # pivot.idx /\ dist(n, pivot) < radius),
               pivot)

\* The DetectedPattern pushed for the nodes members
PatternOf(type, members, timestamp, confidence) ==
    [type |-> type,
     nodeIndices |-> [i \in 1..Len(members) |-> members[i].idx],
     center |-> centroid(members),
     birth |-> timestamp,
     confidence |-> Round(confidence),
     vertices |-> Len(members)]

\* patternsRef.current.push(pattern); found = true
Push(s, pattern) ==
    [patterns |-> Append(s.patterns, pattern), found |-> TRUE]

\* One attempt of stage 1 with this pivot: the pivot and its count nearest
\* nodes for the largest count of 5 down to 3 that isLine accepts, else <<>>
LineAttempt(pivot, available) ==
    LET nearby == Nearby(pivot, available, 30000)
        counts == {c \in 3..Min2(5, Len(nearby)) :
                      isLine(<<pivot>> \o SubSeq(nearby, 1, c)).valid}
    IN  IF counts = {} THEN <<>>
        ELSE <<pivot>> \o SubSeq(nearby, 1,
                                 CHOOSE c \in counts : \A d \in counts : d <= c)

\* Stage 1, lines: every attempt draws its pivot at random, so the stage
\* finds the line of any pivot that has one, and finds nothing when some
\* pivot has none
TryLines(s, available, timestamp) ==
    IF ~NotFound(s.found) THEN {s}
    ELSE LET pivots == {available[i] : i \in 1..Len(available)}
             hits   == {p \in pivots : LineAttempt(p, available) # <<>>}
         IN  {Push(s, LET members == LineAttempt(p, available)
                      IN  PatternOf("LINE", members, timestamp,
                                    isLine(members).confidence)) : p \in hits}
             \cup (IF hits # pivots THEN {s} ELSE {})

\* One attempt of stage 2 with a, b, c the first three of the shuffle
TriangleAttempt(a, b, c) ==
    /\ dist(a, b) <= 20000
    /\ dist(b, c) <= 20000
    /\ dist(a, c) <= 20000
    /\ isTriangle(a, b, c).valid

\* Stage 2, triangles: every attempt shuffles the available nodes at random
TryTriangles(s, available, timestamp) ==
    IF ~NotFound(s.found) THEN {s}
    ELSE LET ids     == 1..Len(available)
             triples == {t \in ids \X ids \X ids :
                            t[1] # t[2] /\ t[2] # t[3] /\ t[1] # t[3]}
             hits    == {t \in triples :
                            TriangleAttempt(available[t[1]], available[t[2]],
                                            available[t[3]])}
         IN  {Push(s, LET a == available[t[1]]
                          b == available[t[2]]
                          c == available[t[3]]
                      IN  PatternOf("TRIANGLE", <<a, b, c>>, timestamp,
                                    isTriangle(a, b, c).confidence)) : t \in hits}
             \cup (IF hits # triples THEN {s} ELSE {})

\* i, j, k of the three nested loops, in the order they are run through
LoopBefore(t, u) ==
    \/ t[1] < u[1]
    \/ t[1] = u[1] /\ t[2] < u[2]
    \/ t[1] = u[1] /\ t[2] = u[2] /\ t[3] <= u[3]

\* One attempt of stage 3 with this pivot: the first pivot, nearby[i],
\* nearby[j], nearby[k] that isSquare or else isDiamond accepts, else <<>>
QuadAttempt(pivot, available) ==
    LET nearby == Nearby(pivot, available, 20000)
        n      == Len(nearby)
        quad(t) == <<pivot, nearby[t[1]], nearby[t[2]], nearby[t[3]]>>
        loops  == {t \in (1..Min2(n, 5)) \X (1..Min2(n, 6)) \X (1..Min2(n, 7)) :
                      t[1] < t[2] /\ t[2] < t[3]}
        hits   == {t \in loops :
                      isSquare(quad(t)).valid \/ isDiamond(quad(t)).valid}
    IN  IF n < 3 \/ hits = {} THEN <<>>
        ELSE quad(CHOOSE t \in hits : \A u \in hits : LoopBefore(t, u))

\* Stage 3, squares and diamonds: the square is looked for first
TryQuads(s, available, timestamp) ==
    IF ~NotFound(s.found) THEN {s}
    ELSE LET pivots == {available[i] : i \in 1..Len(available)}
             hits   == {p \in pivots : QuadAttempt(p, available) # <<>>}
         IN  {Push(s, LET pts == QuadAttempt(p, available)
                      IN  IF isSquare(pts).valid
                          THEN PatternOf("SQUARE", pts, timestamp,
                                         isSquare(pts).confidence)
                          ELSE PatternOf("DIAMOND", pts, timestamp,
                                         isDiamond(pts).confidence)) : p \in hits}
             \cup (IF hits # pivots THEN {s} ELSE {})

\* The node indices of the patterns
UsedNodes(patterns) ==
    UNION {{patterns[i].nodeIndices[k] : k \in 1..Len(patterns[i].nodeIndices)}
           : i \in 1..Len(patterns)}

\* The pattern lists the three stages can end with
Detected(patterns, available, timestamp) ==
    LET start  == [patterns |-> patterns, found |-> FALSE]
        lines  == TryLines(start, available, timestamp)
        tris   == UNION {TryTriangles(s, available, timestamp) : s \in lines}
        quads  == UNION {TryQuads(s, available, timestamp) : s \in tris}
    IN  {s.patterns : s \in quads}

---------------------------------------------------------------------------
(* The calls                                                               *)

NoCheck == [match |-> FALSE, confidence |-> 0]

\* Nothing has been called yet and the caller's array holds the argument
Fresh ==
    /\ op = "idle"
    /\ out = <<>>
    /\ shape = NoShape
    /\ stages = <<>>
    /\ check = NoCheck
    /\ array = points
    /\ shared = FALSE
    /\ again = NoShape
    /\ frames = <<>>
    /\ canvas = Mounted
    /\ calls = NoCalls
    /\ field = NoField
    /\ pass = NoPass

Idle ==
    /\ epsilon = 0
    /\ Fresh

Init ==
    /\ \/ points \in SparseInputs
       \/ points \in DenseInputs
    /\ Idle

\* recognizeFromPoints(points)
Recognize ==
    /\ op = "idle"
    /\ LET run == recognizeRun(points)
       IN  /\ shape' = run.shape
           /\ stages' = run.stages
    /\ array' = InputAfter(points)
    /\ shared' = ResultSharesInput(points)
    /\ op' = "recognizeFromPoints"
    /\ UNCHANGED <<points, epsilon, out, check, again, frames>>
    /\ UNCHANGED componentVars

\* isCircle(points), which the first recognizeFromPoints of the file calls
\* on more than 6 points
CircleCheck ==
    /\ op = "idle"
    /\ Len(points) > 6
    /\ check' = isCircle(points)
    /\ op' = "isCircle"
    /\ UNCHANGED <<points, epsilon, out, shape, stages, array, shared, again,
                   frames>>
    /\ UNCHANGED componentVars

\* Inputs of calls made between two calls on the same points
OtherInputs == {<<Px(0, 0), Px(50, 0)>>, Scaled(SquareStroke, 1)}

\* The caller pushes a point on the array it passed, or empties it; a
\* result that holds that array shows the change
CallerEdits ==
    /\ op = "recognizeFromPoints"
    /\ \E edited \in {Append(array, Px(7, 7)), <<>>} :
           /\ edited # array
           /\ array' = edited
           /\ shape' = IF shared THEN [shape EXCEPT !.points = edited]
                       ELSE shape
    /\ op' = "caller edit"
    /\ UNCHANGED <<points, epsilon, out, stages, check, shared, again, frames>>
    /\ UNCHANGED componentVars

\* A later call of recognizeFromPoints, on some other input or once more
\* on the same points
RecognizeLater ==
    /\ op \in {"recognizeFromPoints", "other call"}
    /\ \E q \in (IF op = "other call" THEN {} ELSE OtherInputs) \cup {points} :
           /\ again' = recognizeFromPoints(q)
           /\ op' = IF q # points THEN "other call"
                    ELSE IF op = "other call"
                    THEN "called again after another call"
                    ELSE "called again"
    /\ UNCHANGED <<points, epsilon, out, shape, stages, check, array, shared,
                   frames>>
    /\ UNCHANGED componentVars

Next ==
    \/ Recognize
    \/ CircleCheck
    \/ CallerEdits
    \/ RecognizeLater

Spec == Init /\ [][Next]_vars

InitRdp ==
    /\ points \in SeqsUpTo(Lattice, MaxPath)
    /\ epsilon \in Tolerances
    /\ Fresh

\* rdp(points, epsilon)
Simplify ==
    /\ op = "idle"
    /\ out' = rdp(points, epsilon)
    /\ array' = ArgAfterRdp(points)
    /\ op' = "rdp"
    /\ UNCHANGED <<points, epsilon, shape, stages, check, shared, again,
                   frames>>
    /\ UNCHANGED componentVars

\* rdp(rdp(points, epsilon), epsilon): the result is simplified once more
SimplifyAgain ==
    /\ op = "rdp"
    /\ again' = rdp(out, epsilon)
    /\ op' = "rdp again"
    /\ UNCHANGED <<points, epsilon, out, shape, stages, check, array, shared,
                   frames>>
    /\ UNCHANGED componentVars

NextRdp == Simplify \/ SimplifyAgain

SpecRdp == InitRdp /\ [][NextRdp]_vars

\* rdp run call by call.  A frame is one call that is still to run: the
\* slice points[lo..hi] it was handed, its depth of recursion and the length
\* of the slice of the call that made it.
Frame(lo, hi, depth, parent) ==
    [lo |-> lo, hi |-> hi, depth |-> depth, parent |-> parent]

FrameLen(f) == f.hi - f.lo + 1

\* rdp(points, epsilon) is called
RdpEnter ==
    /\ op = "idle"
    /\ frames' = <<Frame(1, Len(points), 0, 0)>>
    /\ op' = "rdp running"
    /\ UNCHANGED <<points, epsilon, out, shape, stages, check, array, shared,
                   again>>
    /\ UNCHANGED componentVars

\* The innermost pending call runs: it returns its slice (2 or fewer
\* points), returns its two ends (nothing farther than epsilon), or calls
\* itself on the slices up to and from the farthest point, the left one
\* first.  What the calls return is joined in the order they return.
RdpStep ==
    /\ op = "rdp running"
    /\ frames # <<>>
    /\ Len(frames) <= Len(points) + 1
    /\ LET f   == Head(frames)
           sub == SubSeq(points, f.lo, f.hi)
           n   == Len(sub)
           far == RdpFarthest(sub)
       IN  IF n <= 2
           THEN /\ out' = RdpJoin(out, sub)
                /\ frames' = Tail(frames)
           ELSE IF far.maxDist > epsilon
           THEN /\ out' = out
                /\ frames' =
                       <<Frame(f.lo, f.lo + far.index - 1, f.depth + 1, n),
                         Frame(f.lo + far.index - 1, f.hi, f.depth + 1, n)>>
                           \o Tail(frames)
           ELSE /\ out' = RdpJoin(out, <<sub[1], sub[n]>>)
                /\ frames' = Tail(frames)
    /\ op' = IF frames' = <<>> THEN "rdp returned" ELSE "rdp running"
    /\ UNCHANGED <<points, epsilon, shape, stages, check, array, shared, again>>
    /\ UNCHANGED componentVars

NextRdpSteps == RdpEnter \/ RdpStep

SpecRdpSteps == InitRdp /\ [][NextRdpSteps]_vars

InitOrder ==
    /\ points \in SeqsUpTo(Lattice, MaxVerts) \ {<<>>}
    /\ Idle

\* orderByAngle(points)
Order ==
    /\ op = "idle"
    /\ out' = orderByAngle(points)
    /\ array' = ArgAfterOrderByAngle(points)
    /\ op' = "orderByAngle"
    /\ UNCHANGED <<points, epsilon, shape, stages, check, shared, again,
                   frames>>
    /\ UNCHANGED componentVars

\* orderByAngle applied to its own result
OrderAgain ==
    /\ op = "orderByAngle"
    /\ out' = orderByAngle(out)
    /\ op' = "orderByAngle again"
    /\ UNCHANGED <<points, epsilon, shape, stages, check, array, shared, again,
                   frames>>
    /\ UNCHANGED componentVars

NextOrder == Order \/ OrderAgain

SpecOrder == InitOrder /\ [][NextOrder]_vars

InitHull ==
    /\ points \in SeqsUpTo(Lattice, MaxHull) \ {<<>>}
    /\ Idle

\* convexHull(points)
Hull ==
    /\ op = "idle"
    /\ out' = convexHull(points)
    /\ array' = ArgAfterConvexHull(points)
    /\ op' = "convexHull"
    /\ UNCHANGED <<points, epsilon, shape, stages, check, shared, again,
                   frames>>
    /\ UNCHANGED componentVars

NextHull == Hull

SpecHull == InitHull /\ [][NextHull]_vars

\* The same clicks placed in any order
Orderings(s) ==
    {[i \in 1..Len(s) |-> s[f[i]]] : f \in Permutations(1..Len(s))}

InitClicks ==
    /\ points \in {v \in VertexLists : Len(v) >= 3}
    /\ Idle

\* recognizeFromPoints on the clicks of points placed in another order
RecognizeReordered ==
    /\ op = "recognizeFromPoints"
    /\ \E q \in Orderings(points) :
           /\ out' = q
           /\ again' = recognizeFromPoints(q)
    /\ op' = "reordered call"
    /\ UNCHANGED <<points, epsilon, shape, stages, check, array, shared,
                   frames>>
    /\ UNCHANGED componentVars

NextClicks == Recognize \/ RecognizeReordered

SpecClicks == InitClicks /\ [][NextClicks]_vars

\* The canvas is mounted; the recognition engine has not been called
InitCanvas ==
    /\ points = <<>>
    /\ Idle

\* onMouseDown: a stroke begins (draw mode) or a point is placed
handleMouseDown ==
    /\ IF canvas.mode = "draw"
       THEN \E p \in NextOf(CanvasStrokes, <<>>) :
                /\ canvas' = [clear(canvas) EXCEPT !.isDrawing = TRUE,
                                                   !.currentPath = <<p>>]
                /\ calls' = [Other EXCEPT
                                 !.samples = 1, !.inStroke = 0]
       ELSE \E p \in NextOf(CanvasClicks, canvas.placedPoints) :
                /\ canvas' = [canvas EXCEPT !.result = NoShape,
                                            !.showResult = FALSE,
                                            !.placedPoints = Append(@, p)]
                /\ calls' = Other
    /\ UNCHANGED <<engineVars, field, pass>>

\* onMouseMove: a sample is added to the stroke that is being drawn
handleMouseMove ==
    /\ IF StrokeOpen(canvas)
       THEN \E p \in NextOf(CanvasStrokes, canvas.currentPath) :
                /\ canvas' = [canvas EXCEPT !.currentPath = Append(@, p)]
                /\ calls' = [Other EXCEPT
                                 !.samples = Min2(@ + 1, 6)]
       ELSE /\ canvas' = canvas
            /\ calls' = Other
    /\ UNCHANGED <<engineVars, field, pass>>

\* onMouseUp and onMouseLeave, bound to the one handler: the stroke ends
\* and is recognised when it is long enough
handleMouseUp ==
    /\ \E event \in {"onMouseUp", "onMouseLeave"} :
           IF StrokeOpen(canvas)
           THEN LET ended == [canvas EXCEPT !.isDrawing = FALSE]
                IN  IF LongEnough(canvas.currentPath)
                    THEN /\ canvas' = recognize(ended, canvas.currentPath)
                         /\ Allowed(canvas')
                         /\ calls' = Asked(event, canvas.currentPath, canvas')
                    ELSE /\ canvas' = ended
                         /\ calls' = Quiet(event)
           ELSE /\ canvas' = canvas
                /\ calls' = Quiet(event)
    /\ UNCHANGED <<engineVars, field, pass>>

\* The RECOGNIZE SHAPE button
finishPoints ==
    /\ FinishShown(canvas)
    /\ IF EnoughPlaced(canvas.placedPoints)
       THEN /\ canvas' = recognize(canvas, canvas.placedPoints)
            /\ Allowed(canvas')
            /\ calls' = Asked("finishPoints", canvas.placedPoints, canvas')
       ELSE /\ canvas' = canvas
            /\ calls' = Quiet("finishPoints")
    /\ UNCHANGED <<engineVars, field, pass>>

\* The CLEAR button
ClearButton ==
    /\ ClearShown(canvas)
    /\ canvas' = clear(canvas)
    /\ calls' = Other
    /\ UNCHANGED <<engineVars, field, pass>>

\* The Draw and Points buttons: setMode(...) and clear()
ModeButton ==
    /\ \E m \in {"draw", "points"} :
           canvas' = clear([canvas EXCEPT !.mode = m])
    /\ calls' = Other
    /\ UNCHANGED <<engineVars, field, pass>>

NextCanvas ==
    \/ handleMouseDown
    \/ handleMouseMove
    \/ handleMouseUp
    \/ finishPoints
    \/ ClearButton
    \/ ModeButton

SpecCanvas == InitCanvas /\ [][NextCanvas]_vars

---------------------------------------------------------------------------
(* PatternCanvas: the animation loop                                       *)

InitPatterns ==
    /\ points = <<>>
    /\ Idle

\* resize() on mount: initNodes fills the empty field with nodes at random
\* positions
initNodes ==
    /\ field.nodes = <<>>
    /\ \E at \in Fields :
           field' = [field EXCEPT
                        !.nodes = Placed(at, [i \in 1..Len(at) |-> -1])]
    /\ UNCHANGED <<engineVars, canvas, calls, pass>>

\* The frames between two detection passes: the nodes have moved
MoveNodes ==
    /\ field.nodes # <<>>
    /\ \E at \in Fields :
           field' = [field EXCEPT
                        !.nodes = Placed(at, [i \in 1..Len(at) |->
                                                 field.nodes[i].patternId])]
    /\ UNCHANGED <<engineVars, canvas, calls, pass>>

\* detectPatterns(timestamp), called by every frame of the loop, which
\* starts once resize() has filled the field
detectPatterns ==
    /\ field.nodes # <<>>
    /\ \E gap \in FrameGaps :
         LET timestamp == pass.timestamp + gap
         IN  /\ timestamp <= MaxTime
             /\ IF timestamp - field.lastDetect < 1500
                THEN /\ field' = field
                     /\ pass' = [timestamp |-> timestamp, ran |-> FALSE,
                                 added |-> 0]
                ELSE LET kept      == SelectSeq(field.patterns,
                                          LAMBDA p : StillAlive(p, timestamp))
                         cleared   == [i \in 1..Len(field.nodes) |->
                                          [field.nodes[i] EXCEPT !.patternId = -1]]
                         available == Available(cleared, UsedNodes(kept))
                     IN  IF Len(available) < 3
                         THEN /\ field' = [nodes |-> cleared, patterns |-> kept,
                                           lastDetect |-> timestamp]
                              /\ pass' = [timestamp |-> timestamp, ran |-> TRUE,
                                          added |-> 0]
                         ELSE \E patterns \in Detected(kept, available, timestamp) :
                                /\ field' =
                                     [nodes |-> [i \in 1..Len(cleared) |->
                                                   [cleared[i] EXCEPT !.patternId =
                                                      IF i \in UsedNodes(patterns)
                                                      THEN 1 ELSE -1]],
                                      patterns |-> patterns,
                                      lastDetect |-> timestamp]
                                /\ pass' = [timestamp |-> timestamp, ran |-> TRUE,
                                            added |-> Len(patterns) - Len(kept)]
    /\ UNCHANGED <<engineVars, canvas, calls>>

NextPatterns == initNodes \/ MoveNodes \/ detectPatterns

SpecPatterns == InitPatterns /\ [][NextPatterns]_vars

-----------------------------------------------------------------------------
\* Vocabulary of the properties

Range(s) == {s[i] : i \in 1..Len(s)}

Count(s, x) == Cardinality({i \in 1..Len(s) : s[i] = x})

\* t holds the elements of s, each as often as s does
IsPermutation(t, s) ==
    /\ Len(t) = Len(s)
    /\ \A x \in Range(s) \cup Range(t) : Count(t, x) = Count(s, x)

\* t can be read off s from left to right, skipping elements
RECURSIVE IsSubsequence(_, _)
IsSubsequence(t, s) ==
    IF t = <<>> THEN TRUE
    ELSE IF s = <<>> THEN FALSE
    ELSE IF Head(t) = Head(s) THEN IsSubsequence(Tail(t), Tail(s))
    ELSE IsSubsequence(t, Tail(s))

\* Every point of s lies on one straight line
Collinear(s) ==
    \A i, j, k \in 1..Len(s) : Cross(s[i], s[j], s[k]) = 0

Dot(o, a, b) == (a.x - o.x) * (b.x - o.x) + (a.y - o.y) * (b.y - o.y)

\* Distance from p to the segment from a to b, endpoints included
DistToSegment(p, a, b) ==
    IF a = b \/ Dot(a, p, b) <= 0 THEN dist(p, a)
    ELSE IF Dot(b, p, a) <= 0 THEN dist(p, b)
    ELSE pointToLineDist(p, a, b)

\* Distance from p to the chain of segments joining consecutive points of s
DistToPolyline(p, s) ==
    IF Len(s) = 1 THEN dist(p, s[1])
    ELSE MinSeq([j \in 1..(Len(s) - 1) |-> DistToSegment(p, s[j], s[j + 1])])

OnSegment(p, a, b) ==
    /\ Cross(a, b, p) = 0
    /\ Min2(a.x, b.x) <= p.x /\ p.x <= Max2(a.x, b.x)
    /\ Min2(a.y, b.y) <= p.y /\ p.y <= Max2(a.y, b.y)

Succ(j, n) == IF j = n THEN 1 ELSE j + 1

\* p is inside or on the boundary of the polygon with vertex list h
InsideOrOn(p, h) ==
    LET n == Len(h)
    IN  \/ \E j \in 1..n : OnSegment(p, h[j], h[Succ(j, n)])
        \/ \A j \in 1..n : Cross(h[j], h[Succ(j, n)], p) > 0
        \/ \A j \in 1..n : Cross(h[j], h[Succ(j, n)], p) < 0

Recognized == op = "recognizeFromPoints" /\ shape.type # Null

TriangleLabels ==
    {"TRIANGLE", "RIGHT TRIANGLE", "EQUILATERAL TRIANGLE", "ISOSCELES TRIANGLE"}

QuadLabels == {"SQUARE", "RECTANGLE", "DIAMOND", "QUADRILATERAL"}

-----------------------------------------------------------------------------
\* C1: every confidence the file computes is an integer above 0 and at most
\* 99: the confidence of a shape returned by recognizeFromPoints, and the
\* confidence computed by isCircle (no formula can produce 100).
C1_ConfidenceNever100 ==
    /\ Recognized => shape.confidence \in 1..99
    /\ op = "isCircle" => check.confidence <= 99

\* C1, the part that holds: a shape returned by recognizeFromPoints of lines
\* 798-863 has a confidence in 1..99.
C1_ReturnedConfidenceInRange == Recognized => shape.confidence \in 1..99

\* C2: a returned shape has a non-empty points list; vertices is the length
\* of that list, except for CIRCLE and OVAL, whose vertices is 0 and whose
\* points list is exactly the centroid of the raw input.
C2_PointsAndVertices ==
    Recognized =>
        /\ Len(shape.points) >= 1
        /\ IF shape.type \in {"CIRCLE", "OVAL"}
           THEN shape.vertices = 0 /\ shape.points = <<centroid(points)>>
           ELSE shape.vertices = Len(shape.points)

C2_Witness_Oval ==
    /\ Recognized
    /\ shape.type = "OVAL"
    /\ shape.points = <<centroid(points)>>

\* C3: on an input of 0 points or 1 point recognizeFromPoints returns null
\* and runs no classifier.
C3_TooFewPointsIsNull ==
    (op = "recognizeFromPoints" /\ Len(points) < 2) =>
        shape = NoShape /\ stages = <<>>

C3_Witness_SinglePoint ==
    op = "recognizeFromPoints" /\ Len(points) = 1 /\ shape = NoShape

\* C4: on more than 6 points the detectors have a fixed priority: a circle
\* or oval match is returned whatever the later stages would say; STAR is
\* returned only when circle / oval did not match; the polygon classifier
\* decides only when neither matched.
C4_FreehandPriority ==
    (op = "recognizeFromPoints" /\ Len(points) > 6) =>
        LET co   == circleOrOval(points)
            star == isStarLike(points)
        IN  /\ co.type # Null =>
                /\ shape.type = co.type
                /\ shape.confidence = co.confidence
                /\ stages = <<"circleOrOval">>
            /\ shape.type = "STAR" <=> (co.type = Null /\ star.match)
            /\ (co.type = Null /\ ~star.match) =>
                /\ shape = PolygonFallback(points)
                /\ stages[Len(stages)] = "classifyPolygon"

C4_Witness_CircleBeatsPolygon ==
    /\ op = "recognizeFromPoints"
    /\ Len(points) > 6
    /\ shape.type = "CIRCLE"
    /\ PolygonFallback(points).type # Null

\* C5: on 2 to 6 points the result is exactly classifyPolygon of the
\* unsimplified input: rdp is not applied, CIRCLE, OVAL and STAR are never
\* returned, and the label family follows the count (2: LINE or no match,
\* 3: a triangle label or no match, 4: a quadrilateral label, 5: PENTAGON,
\* 6: HEXAGON).
C5_SparseIsClassifyPolygon ==
    (op = "recognizeFromPoints" /\ Len(points) \in 2..6) =>
        /\ shape = classifyPolygon(points)
        /\ stages = <<"classifyPolygon">>
        /\ shape.type \notin {"CIRCLE", "OVAL", "STAR"}
        /\ shape.type # Null => IsPermutation(shape.points, points)
        /\ Len(points) = 2 => shape.type \in {"LINE", Null}
        /\ Len(points) = 3 => shape.type \in TriangleLabels \cup {Null}
        /\ Len(points) = 4 => shape.type \in QuadLabels
        /\ Len(points) = 5 => shape.type = "PENTAGON"
        /\ Len(points) = 6 => shape.type = "HEXAGON"

C5_Witness_FourClicks ==
    /\ op = "recognizeFromPoints"
    /\ Len(points) = 4
    /\ shape.type = "SQUARE"
    /\ stages = <<"classifyPolygon">>

\* C6: every point of P lies within eps of the polyline (the chain of
\* segments) through the points of rdp(P, eps).
C6_WithinEpsOfPolyline ==
    (op = "rdp" /\ Len(points) >= 1) =>
        \A i \in 1..Len(points) : DistToPolyline(points[i], out) <= epsilon

\* C6, what rdp does guarantee: every point of P lies within eps of the
\* infinite straight line through two consecutive points of rdp(P, eps), or
\* within eps of that point where the two coincide; a P of fewer than 2
\* points is returned as it is.
C6_WithinEpsOfChordLine ==
    op = "rdp" =>
        IF Len(points) < 2 THEN out = points
        ELSE \A i \in 1..Len(points) :
                \E j \in 1..(Len(out) - 1) :
                    pointToLineDist(points[i], out[j], out[j + 1]) <= epsilon

\* C7: for a P of 2 or more points rdp(P, eps) is an order-preserving
\* subsequence of P that keeps the first and the last point of P; a P of 2
\* or fewer points is returned unchanged.
C7_SubsequenceKeepingEnds ==
    op = "rdp" =>
        /\ Len(points) <= 2 => out = points
        /\ Len(points) >= 2 =>
            /\ Len(out) >= 2
            /\ IsSubsequence(out, points)
            /\ out[1] = points[1]
            /\ out[Len(out)] = points[Len(points)]

C7_Witness_InteriorKept ==
    /\ op = "rdp"
    /\ Len(points) = 4
    /\ Len(out) = 3
    /\ out[2] \notin {points[1], points[4]}

\* C8: for a P of 2 or more points that all lie on one straight line,
\* rdp(P, 0) is exactly the first and the last point of P.
C8_CollinearCollapses ==
    (op = "rdp" /\ epsilon = 0 /\ Len(points) >= 2 /\ Collinear(points)) =>
        out = <<points[1], points[Len(points)]>>

\* C8, amended: for a P of 2 or more points that all lie on one straight
\* line and whose first and last points differ, rdp(P, 0) is exactly the
\* first and the last point of P.
C8_OpenCollinearCollapses ==
    (/\ op = "rdp" /\ epsilon = 0 /\ Len(points) >= 2 /\ Collinear(points)
     /\ points[1] # points[Len(points)]) =>
        out = <<points[1], points[Len(points)]>>

C8_Witness_StraightPath ==
    /\ op = "rdp"
    /\ epsilon = 0
    /\ Len(points) = 4
    /\ Collinear(points)
    /\ Cardinality(Range(points)) = 3
    /\ points[1] # points[4]
    /\ Len(out) = 2

\* C9: orderByAngle(V) holds exactly the elements of V, each as often as V
\* does, and ordering an already ordered list changes nothing.
C9_PermutationAndIdempotent ==
    /\ op = "orderByAngle" => IsPermutation(out, points)
    /\ op = "orderByAngle again" => out = orderByAngle(points)

C9_Witness_OrderedAgain ==
    /\ op = "orderByAngle again"
    /\ Len(points) = 4
    /\ Cardinality(Range(points)) = 3
    /\ orderByAngle(points) # points
    /\ out = orderByAngle(points)

\* C10: for a P of 1 or more points, every point of P lies inside or on the
\* boundary of the polygon convexHull(P).
C10_HullContainsInput ==
    (op = "convexHull" /\ Len(points) >= 1) =>
        \A i \in 1..Len(points) : InsideOrOn(points[i], out)

C10_Witness_InteriorPoint ==
    /\ op = "convexHull"
    /\ Len(points) = 4
    /\ Len(out) = 3
    /\ \E i \in 1..4 : \A j \in 1..3 : ~OnSegment(points[i], out[j], out[Succ(j, 3)])

\* The vertex list h turns left at every vertex (counter-clockwise with the
\* y axis pointing up) and repeats no vertex
StrictlyConvexCcw(h) ==
    LET n == Len(h)
    IN  /\ Cardinality(Range(h)) = n
        /\ n >= 3 =>
              \A j \in 1..n :
                  Cross(h[j], h[Succ(j, n)], h[Succ(Succ(j, n), n)]) > 0

\* C11: for every input of 1 or more points (3 or fewer points, collinear
\* points and duplicate points included) convexHull returns its vertices in
\* counter-clockwise order, no three consecutive vertices collinear and no
\* vertex repeated.
C11_HullCounterClockwiseStrict ==
    (op = "convexHull" /\ Len(points) >= 1) => StrictlyConvexCcw(out)

\* C11, what convexHull does guarantee: the same for an input of 4 or more
\* points that are not all the same point.
C11_HullStrictFromFourPoints ==
    (op = "convexHull" /\ Len(points) >= 4 /\ Cardinality(Range(points)) >= 2)
        => StrictlyConvexCcw(out)

C13_ResultPointsAreFresh ==
    (op \in {"recognizeFromPoints", "caller edit"} /\ shape.type # Null) =>
        /\ ~shared
        /\ shape.points = recognizeFromPoints(points).points

\* C13, what does hold: the points of every result other than the LINE of a
\* 2-point input are a fresh list.
C13_FreshUnlessTwoPointLine ==
    (/\ op \in {"recognizeFromPoints", "caller edit"}
     /\ shape.type # Null
     /\ ~(Len(points) = 2 /\ shape.type = "LINE")) =>
        /\ ~shared
        /\ shape.points = recognizeFromPoints(points).points

CallsLeft(f) == Max2(1, 2 * FrameLen(f) - 3)

FramesMeasure(fs) == SumSeq([i \in 1..Len(fs) |-> CallsLeft(fs[i])])

\* C15: rdp terminates: whenever it recurses, the split index lies strictly
\* between the first and the last index, so each of the two calls gets a
\* strictly shorter slice of 2 or more points and the depth of recursion
\* stays within the length of the input; every step lowers the number of
\* calls that can still follow, and the run ends with the value of
\* rdp(points, epsilon).
C15_RdpRecursionShrinks ==
    [][op = "rdp running" =>
          /\ FramesMeasure(frames') < FramesMeasure(frames)
          /\ \A i \in 1..Len(frames') :
                 frames'[i].depth >= 1 =>
                     /\ FrameLen(frames'[i]) >= 2
                     /\ FrameLen(frames'[i]) < frames'[i].parent
                     /\ frames'[i].depth <= Len(points)
          /\ frames' = <<>> =>
                 op' = "rdp returned" /\ out' = rdp(points, epsilon)]_vars

C15_Witness_RecursedTwice ==
    /\ op = "rdp running"
    /\ Len(points) = 4
    /\ Len(frames) = 3
    /\ frames[1].depth = 2
    /\ frames[1].lo < frames[1].hi

\* The sides and the interior angles of the quadrilateral whose corners are
\* v, taken in angular order
SidesOf(v) ==
    LET o == orderByAngle(v)
    IN  [i \in 1..Len(o) |-> dist(o[i], o[Succ(i, Len(o))])]

QuadAngles(v) ==
    LET o == orderByAngle(v)
    IN  [i \in 1..4 |-> angleBetween(o[Succ(Succ(Succ(i, 4), 4), 4)], o[i],
                                     o[Succ(i, 4)])]

\* All four angles within 0.35 rad of a right angle
NearlyRightAngled(v) ==
    \A i \in 1..4 : Abs(QuadAngles(v)[i] - 15708) < 3500

\* The shortest side is more than tenths / 10 of the longest
SideRatioAbove(v, tenths) ==
    MinSeq(SidesOf(v)) * 10 > tenths * MaxSeq(SidesOf(v))

SparseCall(n) == op = "recognizeFromPoints" /\ Len(points) = n

\* C16: a 4-vertex input whose shortest side is below the minimum
\* quadrilateral side of 35 gets no match.
C16_SmallQuadIsNoMatch ==
    (SparseCall(4) /\ MinSeq(SidesOf(points)) < 3500) => shape.type = Null

\* C17: for a 2-vertex input at least 20 apart the result is LINE with
\* confidence 90, vertices 2 and a description reporting the rounded
\* length; below 20 the result is no match.
C17_LineFromTwoPoints ==
    SparseCall(2) =>
        LET d == dist(points[1], points[2])
        IN  IF d >= 2000
            THEN /\ shape.type = "LINE"
                 /\ shape.confidence = 90
                 /\ shape.vertices = 2
                 /\ shape.description = [text |-> "Length", nums |-> <<Round(d)>>]
            ELSE shape = NoShape

C17_Witness_LineOfFifty ==
    /\ SparseCall(2)
    /\ points = <<Px(0, 0), Px(50, 0)>>
    /\ shape.type = "LINE"
    /\ shape.description.nums = <<50>>

\* C18: a 3-vertex input gets no match if and only if the shortest of its
\* three sides is below 15; otherwise it gets one of the four triangle
\* labels with vertices 3.
C18_TriangleMinimumSide ==
    SparseCall(3) =>
        /\ shape.type = Null <=> MinSeq(SidesOf(points)) < 1500
        /\ shape.type # Null =>
               shape.type \in TriangleLabels /\ shape.vertices = 3

C18_Witness_SideOfFifteen ==
    /\ SparseCall(3)
    /\ MinSeq(SidesOf(points)) = 1500
    /\ shape.type \in TriangleLabels

\* C19: for 4 vertices the label is the first that applies of SQUARE (all
\* four angles within 0.35 rad of a right angle and a min/max side ratio
\* above 0.8), RECTANGLE (the angles only), DIAMOND (a side ratio above
\* 0.7), QUADRILATERAL; the corners of an exact square give SQUARE with
\* vertices 4 and a confidence of 90 or more.
C19_QuadLabelOrder ==
    SparseCall(4) =>
        /\ shape.type =
               IF NearlyRightAngled(points) /\ SideRatioAbove(points, 8)
               THEN "SQUARE"
               ELSE IF NearlyRightAngled(points) THEN "RECTANGLE"
               ELSE IF SideRatioAbove(points, 7) THEN "DIAMOND"
               ELSE "QUADRILATERAL"
        /\ shape.vertices = 4
        /\ points = <<Px(0, 0), Px(100, 0), Px(100, 100), Px(0, 100)>> =>
               shape.type = "SQUARE" /\ shape.confidence >= 90

C19_Witness_ExactSquare ==
    /\ SparseCall(4)
    /\ points = <<Px(0, 0), Px(100, 0), Px(100, 100), Px(0, 100)>>
    /\ shape.type = "SQUARE"
    /\ shape.confidence >= 90

\* C20: CIRCLE or OVAL is returned only for an input of 10 or more raw
\* points whose first and last point are closer than max(18, 8 % of the
\* closed perimeter of the raw points); 7 to 9 points and open paths never
\* give CIRCLE or OVAL.
C20_CircleNeedsClosedPath ==
    (Recognized /\ shape.type \in {"CIRCLE", "OVAL"}) =>
        /\ Len(points) >= 10
        /\ \/ dist(points[1], points[Len(points)]) < 1800
           \/ dist(points[1], points[Len(points)]) * 100 < perimeter(points) * 8

C20_Witness_ClosedByPerimeter ==
    /\ Recognized
    /\ shape.type = "CIRCLE"
    /\ dist(points[1], points[Len(points)]) >= 1800
    /\ dist(points[1], points[Len(points)]) * 100 < perimeter(points) * 8

---------------------------------------------------------------------------
\* The vertex list classifyPolygon was handed by the call on pts
ClassifierInput(pts) == IF IsSparse(pts) THEN pts ELSE FallbackVerts(pts)

\* TRUE when the call that has been made ended in classifyPolygon
ReachedClassifier ==
    /\ op = "recognizeFromPoints"
    /\ stages # <<>>
    /\ stages[Len(stages)] = "classifyPolygon"

PolygonNames ==
    <<"PENTAGON", "HEXAGON", "HEPTAGON", "OCTAGON", "ENNEAGON", "DECAGON">>

\* C22: a vertex list of n >= 5 points always gets a shape from the polygon
\* classifier: one of the six names for n = 5..10 and POLYGON (n) beyond,
\* with confidence round(62 + regularity * 30) up to 10 vertices and
\* round(50 + regularity * 20) beyond, the regularity lying in [0, 1].
C22_RegularPolygonLabels ==
    ReachedClassifier =>
        LET v   == ClassifierInput(points)
            n   == Len(v)
            reg == regularityScore(orderByAngle(v))
        IN  n >= 5 =>
                /\ shape.type # Null
                /\ shape.type = IF n <= 10 THEN PolygonNames[n - 4]
                                ELSE "POLYGON (" \o ToString(n) \o ")"
                /\ shape.vertices = n
                /\ reg \in 0..10000
                /\ shape.confidence =
                       IF n <= 10 THEN Round(6200 + (reg * 30) \div 100)
                       ELSE Round(5000 + (reg * 20) \div 100)

\* The corners of a 6-pointed star, less the closing one, are a generic
\* polygon whose confidence is on the lower scale
C22_Witness_ElevenCorners ==
    /\ ReachedClassifier
    /\ Len(ClassifierInput(points)) = 11
    /\ shape.type = "POLYGON (11)"
    /\ shape.confidence \in 51..70

\* A regular pentagon of 5 clicks
C22_Witness_Pentagon ==
    /\ ReachedClassifier
    /\ Len(points) = 5
    /\ shape.type = "PENTAGON"
    /\ shape.confidence > 85

---------------------------------------------------------------------------
\* The three interior angles of the triangle v
TriangleAngles(v) ==
    LET o == orderByAngle(v)
    IN  [i \in 1..3 |-> angleBetween(o[Succ(Succ(i, 3), 3)], o[i],
                                     o[Succ(i, 3)])]

\* Some interior angle is within 0.2 rad of a right angle
HasNearlyRightAngle(v) ==
    \E i \in 1..3 : Abs(TriangleAngles(v)[i] - 15708) < 2000

\* Two sides of the triangle v differ by less than 0.15 of the longest
TwoSidesAlike(v) ==
    LET sd == SortNum(SidesOf(v))
    IN  \/ Abs(sd[1] - sd[2]) * 100 < 15 * sd[3]
        \/ Abs(sd[2] - sd[3]) * 100 < 15 * sd[3]

\* C23: for 3 vertices whose shortest side is 15 or more, an interior angle
\* within 0.2 rad of a right angle makes the label RIGHT TRIANGLE with
\* confidence 85, whatever label the side ratios would give.
C23_RightAngleOverrides ==
    LET v == ClassifierInput(points)
    IN  (/\ ReachedClassifier
         /\ Len(v) = 3
         /\ MinSeq(SidesOf(v)) >= 1500
         /\ HasNearlyRightAngle(v)) =>
            shape.type = "RIGHT TRIANGLE" /\ shape.confidence = 85

\* A right triangle with two equal legs is RIGHT, not ISOSCELES
C23_Witness_RightIsosceles ==
    /\ ReachedClassifier
    /\ Len(points) = 3
    /\ HasNearlyRightAngle(points)
    /\ TwoSidesAlike(points)
    /\ shape.type = "RIGHT TRIANGLE"
    /\ shape.confidence = 85

---------------------------------------------------------------------------
\* Two different points of pts lie in one direction from their centroid
SharedDirection(pts) ==
    LET c == centroid(pts)
    IN  \E i, j \in 1..Len(pts) :
            /\ pts[i] # pts[j]
            /\ ~AngleLess(pts[i], pts[j], c)
            /\ ~AngleLess(pts[j], pts[i], c)

\* C24: the classification of 3 to 6 explicit vertices does not depend on
\* the order they were placed in: any two orderings get the same type,
\* confidence and points list.
C24_OrderOfClicksIrrelevant ==
    op = "reordered call" =>
        /\ again.type = shape.type
        /\ again.confidence = shape.confidence
        /\ again.points = shape.points

\* The order is irrelevant when no two clicks lie in one direction from
\* the centroid
C24_OrderIrrelevantWithoutSharedDirection ==
    (op = "reordered call" /\ ~SharedDirection(points)) =>
        /\ again.type = shape.type
        /\ again.confidence = shape.confidence
        /\ again.points = shape.points

\* Two orderings of one set of clicks never get confidences 10 apart
C24_ConfidenceNearlyOrderFree ==
    op = "reordered call" => Abs(again.confidence - shape.confidence) < 10

---------------------------------------------------------------------------
\* C21: a STAR result comes only from an input of at least 20 raw points;
\* its vertices field is the length of its points list and is at least 8,
\* and its points are the star-tolerance simplification of the input in
\* angular order.
C21_StarNeedsTwentyPoints ==
    (op = "recognizeFromPoints" /\ shape.type = "STAR") =>
        /\ Len(points) >= 20
        /\ shape.vertices = Len(shape.points)
        /\ shape.vertices >= 8
        /\ shape.points = orderByAngle(StarPoly(points))
        /\ orderByAngle(shape.points) = shape.points
        /\ Range(shape.points) \subseteq Range(points)

\* A star of 30 samples is recognised with its 10 corners
C21_Witness_StarOfTenCorners ==
    /\ op = "recognizeFromPoints"
    /\ shape.type = "STAR"
    /\ Len(points) = 30
    /\ shape.vertices = 10

\* The same star drawn with 10 samples only is closed and as concave, yet
\* it is no STAR
C21_Witness_TenSamplesAreNoStar ==
    /\ op = "recognizeFromPoints"
    /\ Len(points) = 10
    /\ Len(StarPoly(points)) >= 8
    /\ shape.type # "STAR"
    /\ shape.type # Null

---------------------------------------------------------------------------
\* C25: after any sequence of mouse and button events of the drawing
\* canvas, recognizeFromPoints has never been called with fewer than 2
\* points: a stroke is passed on with more than 5 samples, placed points
\* with 2 or more.
C25_NeverFewerThanTwoPoints ==
    calls.made =>
        /\ Len(calls.arg) >= 2
        /\ calls.event \in {"onMouseUp", "onMouseLeave"} => Len(calls.arg) > 5

\* Two placed points are passed on, the fewest that ever are
C25_Witness_TwoPlacedPoints ==
    /\ calls.made
    /\ calls.event = "finishPoints"
    /\ Len(calls.arg) = 2

\* C28: in draw mode a stroke, from its mouse down through its moves to
\* the mouse up and the mouse leave that follow, triggers at most one
\* recognition, and none when it has 5 samples or fewer.
C28_OneRecognitionPerStroke ==
    /\ calls.inStroke <= 1
    /\ calls.inStroke = 1 => calls.samples > 5

\* The mouse leaves after the mouse up that had the stroke recognised:
\* nothing more is asked
C28_Witness_LeaveAfterUp ==
    /\ calls.event = "onMouseLeave"
    /\ ~calls.made
    /\ calls.inStroke = 1
    /\ ~canvas.isDrawing

\* C29: the history never holds more than 20 shapes; when it changes, a
\* recognition has just succeeded, its shape is the first entry and the
\* earlier entries follow in their order; a recognition without a match,
\* clear() and a change of mode leave it as it was.
C29_HistoryNewestFirstAtMostTwenty ==
    [][/\ Len(canvas'.history) <= 20
       /\ canvas'.history # canvas.history =>
              /\ calls'.made /\ calls'.matched
              /\ canvas'.history[1] = canvas'.result
              /\ Tail(canvas'.history) =
                     SubSeq(canvas.history, 1, Min2(Len(canvas.history), 19))
       /\ (calls'.made /\ ~calls'.matched) => canvas'.history = canvas.history
       /\ (ClearButton \/ ModeButton) =>
              canvas'.history = canvas.history]_vars

\* The history is full: the shape just recognised is its first entry and
\* the first shape of the session, another one, its last
C29_Witness_FullHistory ==
    /\ Len(canvas.history) = 20
    /\ calls.made /\ calls.matched
    /\ canvas.history[1] = canvas.result
    /\ canvas.history[20] # canvas.history[1]

\* The two vertex lists the polygon classifier turns down: 2 points less
\* than 20 px apart, 3 points whose shortest side is below 15 px
TurnedDown(v) ==
    \/ Len(v) = 2 /\ dist(v[1], v[2]) < 2000
    \/ /\ Len(v) = 3
       /\ \E i, j \in 1..3 : i # j /\ dist(v[i], v[j]) < 1500

\* C26: recognizeFromPoints returns no match in exactly three situations:
\* fewer than 2 input points, a vertex list of 2 points less than 20 apart
\* reaching the polygon classifier, or one of 3 points with a shortest side
\* below 15. The classifier never receives fewer than 2 vertices, and 4 or
\* more vertices, even coincident ones, always yield a shape.
C26_NoMatchInThreeSituationsOnly ==
    op = "recognizeFromPoints" =>
        /\ shape = NoShape <=>
               \/ Len(points) < 2
               \/ ReachedClassifier /\ TurnedDown(ClassifierInput(points))
        /\ ReachedClassifier =>
               /\ Len(ClassifierInput(points)) >= 2
               /\ Len(ClassifierInput(points)) >= 4 => shape.type # Null

\* A drawn stroke that simplifies to 2 vertices less than 20 px apart
C26_Witness_ShortStrokeNoMatch ==
    /\ ReachedClassifier
    /\ Len(points) > 6
    /\ Len(ClassifierInput(points)) = 2
    /\ shape = NoShape

\* Four clicks on one spot are still given a name
C26_Witness_CoincidentQuad ==
    /\ ReachedClassifier
    /\ Len(points) = 4
    /\ \A i \in 1..4 : points[i] = points[1]
    /\ shape.type # Null

\* C27: rdp is idempotent for a fixed tolerance: simplifying the result of
\* rdp(P, eps) once more with the same eps >= 0 gives the same sequence.
C27_RdpIdempotent ==
    op = "rdp again" => epsilon >= 0 /\ again = out

\* A path of 4 points of which one is dropped, and no other the second time
C27_Witness_ThreeKeptTwice ==
    /\ op = "rdp again"
    /\ Len(points) = 4
    /\ Len(out) = 3
    /\ again = out

\* TRUE when no node index is in two patterns of the list
NodesApart(patterns) ==
    \A i, j \in 1..Len(patterns) :
        i # j =>
            \A k \in 1..Len(patterns[i].nodeIndices) :
            \A l \in 1..Len(patterns[j].nodeIndices) :
                patterns[i].nodeIndices[k] # patterns[j].nodeIndices[l]

\* C30: after any sequence of detection passes no node index belongs to two
\* patterns of the active list, each pass adds at most one pattern, and a
\* pass that runs (at least 1500 ms after the one before) leaves no pattern
\* of age 5000 ms or more in the list.
C30_ActivePatternsApartAndYoung ==
    /\ NodesApart(field.patterns)
    /\ pass.added <= 1
    /\ pass.ran =>
           \A i \in 1..Len(field.patterns) :
               pass.timestamp - field.patterns[i].birth < 5000

\* A pass that drops a pattern of exactly 5000 ms, adds one, and leaves two
\* in the list
C30_Witness_OneOutOneIn ==
    /\ pass.ran
    /\ pass.added = 1
    /\ pass.timestamp >= 7000
    /\ Len(field.patterns) = 2
    /\ field.patterns[1].birth = pass.timestamp - 3000
    /\ field.patterns[2].birth = pass.timestamp

=============================================================================
